---- MODULE Spec2Model ----
(***************************************************************************)
(* A model of github.com/ncruces/go-dns: the wire-format message cache     *)
(* (cache.put, cache.get, getTTL, getNameLen), the caching connection      *)
(* (cachingConn), the stream adapter (dnsConn) and the DNS over HTTPS      *)
(* adapter (dohConn).                                                      *)
(*                                                                         *)
(* Messages are sequences of bytes (0..255), 1-indexed: Go's msg[i] is     *)
(* msg[i+1] here, and Go's msg[n:] is Drop(msg, n).                        *)
(*                                                                         *)
(* Go's int is 64 bits wide on the builds modelled here, TLC's integers    *)
(* are 32 bits wide: a Go int that can exceed 2^31-1 (getUint32, the TTL,  *)
(* a time.Duration, a time.Time) is kept as the pair <<hi, lo>> of its     *)
(* value divided by 2^16 (rounded down) and its value modulo 2^16.         *)
(***************************************************************************)
EXTENDS Integers, Sequences, FiniteSets, TLC

\* ------------------------------------------------------------- bounds
\* The size from which put evicts an unexpired entry: 1000 in the code
\* (part_007:85), scaled down.
N_MAX == 2
\* The number of entries one put inspects: 8 in the code (part_007:82),
\* scaled down and, as in the code, below N_MAX.
Probes == 1
\* Clock ticks per second: the resolution of time.Now() relative to the
\* second, the unit of a TTL (1e9 in the code).
Second == 2
\* The clock stops advancing at this tick.
MaxClock == 3

\* ------------------------------------------------------------- helpers
Min(a, b) == IF a < b THEN a ELSE b

\* Go's s[n:]
Drop(s, n) == SubSeq(s, n + 1, Len(s))

\* Go's s[:n]
Take(s, n) == SubSeq(s, 1, n)

\* Wide integers: <<hi, lo>> stands for hi * 2^16 + lo, 0 <= lo < 2^16.
WNorm(hi, lo) == <<hi + (lo \div 65536), lo % 65536>>
W(n) == WNorm(0, n)
WLess(a, b) == a[1] < b[1] \/ (a[1] = b[1] /\ a[2] < b[2])
WLeq(a, b) == a = b \/ WLess(a, b)
WAdd(a, b) == WNorm(a[1] + b[1], a[2] + b[2])
WSub(a, b) == WNorm(a[1] - b[1], a[2] - b[2])
WMul(a, k) == WNorm(a[1] * k, a[2] * k)

\* math.MaxInt32 = 2^31 - 1
MaxInt32 == <<32767, 65535>>

\* ------------------------------------------------------------- wire codec
getUint16(s) == s[2] + s[1] * 256

\* A wide integer: the value can reach 2^32 - 1.
getUint32(s) == <<s[2] + s[1] * 256, s[4] + s[3] * 256>>

\* Mutant: a compression pointer counts as one byte.
RECURSIVE getNameLenShortPtr(_, _)
getNameLenShortPtr(msg, i) ==
  IF ~(i < Len(msg)) THEN i
  ELSE LET c == msg[i + 1] IN
       IF c = 0 THEN i + 1
       ELSE IF c >= 192 THEN i + 1
       ELSE IF c >= 64 THEN -1
       ELSE getNameLenShortPtr(msg, i + ((c + 1) % 256))

RECURSIVE getNameLenFrom(_, _)
getNameLenFrom(msg, i) ==
  IF ~(i < Len(msg)) THEN i
  ELSE LET c == msg[i + 1] IN
       IF c = 0 THEN i + 1                 \* end of name
       ELSE IF c >= 192 THEN i + 2         \* compressed name
       ELSE IF c >= 64 THEN -1             \* reserved
       ELSE getNameLenFrom(msg, i + ((c + 1) % 256))

getNameLen(msg) == getNameLenFrom(msg, 0)

\* The loop that skips the questions: <<ok, rest of the message>>.
RECURSIVE skipQuestions(_, _)
skipQuestions(msg, n) ==
  IF n = 0 THEN <<TRUE, msg>>
  ELSE LET name == getNameLen(msg) IN
       IF name < 0 \/ name + 4 > Len(msg) THEN <<FALSE, msg>>
       ELSE skipQuestions(Drop(msg, name + 4), n - 1)

\* The loop that parses the records: <<ok, the least TTL so far>>.
RECURSIVE parseRecords(_, _, _)
parseRecords(msg, n, ttl) ==
  IF n = 0 THEN <<TRUE, ttl>>
  ELSE LET name == getNameLen(msg) IN
       IF name < 0 \/ name + 10 > Len(msg) THEN <<FALSE, ttl>>
       ELSE LET rttl == getUint32(Drop(msg, name + 4))
                rlen == getUint16(Drop(msg, name + 8))
            IN IF name + 10 + rlen > Len(msg) THEN <<FALSE, ttl>>
               ELSE parseRecords(Drop(msg, name + 10 + rlen), n - 1,
                                 IF WLess(rttl, ttl) THEN rttl ELSE ttl)

\* The time.Duration getTTL returns, in clock ticks (wide); -1 on a parse
\* failure.
getTTL(msg) ==
  LET qdcount == getUint16(Drop(msg, 4))
      ancount == getUint16(Drop(msg, 6))
      nscount == getUint16(Drop(msg, 8))
      arcount == getUint16(Drop(msg, 10))
      rdcount == ancount + nscount + arcount
      qs      == skipQuestions(Drop(msg, 12), qdcount)
      rs      == parseRecords(qs[2], rdcount, MaxInt32)
  IN IF ~qs[1] THEN W(-1)
     ELSE IF ~rs[1] THEN W(-1)
     ELSE WMul(rs[2], Second)

\* ------------------------------------------------------------- the cache
\* c.entries: a function from keys (the request without its ID) to
\* cacheEntry records [deadline, value]; the nil map is the empty function.
NoEntries == [k \in {} |-> 0]

Remove(ents, k) == [x \in (DOMAIN ents) \ {k} |-> ents[x]]

Store(ents, k, e) == [x \in (DOMAIN ents) \cup {k} |-> IF x = k THEN e ELSE ents[x]]

\* Mutant: an entry expires only after its deadline (< 0 for <= 0).
expiredLate(deadline, t) == WLess(deadline, W(t))

\* time.Until(deadline) <= 0 at clock t
expired(deadline, t) == ~WLess(W(t), deadline)

\* Mutant: put also ignores every response whose code is not 0.
putInvalidOrError(req, res) ==
  \/ Len(req) < 12 \/ Len(res) < 12
  \/ req[3] >= 127 \/ res[3] < 127
  \/ req[1] # res[1] \/ req[2] # res[2]
  \/ res[4] % 16 # 0

\* The first checks of put: "ignore invalid/unmatched messages".
putInvalid(req, res) ==
  \/ Len(req) < 12 \/ Len(res) < 12
  \/ req[3] >= 127 \/ res[3] < 127
  \/ req[1] # res[1] \/ req[2] # res[2]

\* Mutant: the loop deletes the last entry it inspects whatever it found
\* before and whatever the size of the table.
RECURSIVE evictAlways(_, _, _, _, _)
evictAlways(ents, order, tested, evicted, t) ==
  IF order = <<>> THEN ents
  ELSE LET k   == Head(order)
           exp == ~WLess(W(t), ents[k].deadline)
           e1  == IF exp THEN [x \in (DOMAIN ents) \ {k} |-> ents[x]] ELSE ents
       IN IF tested + 1 < Probes
          THEN evictAlways(e1, Tail(order), tested + 1, evicted, t)
          ELSE [x \in (DOMAIN e1) \ {k} |-> e1[x]]

\* Mutant: the loop deletes expired entries only, never an unexpired one.
RECURSIVE evictExpiredOnly(_, _, _, _, _)
evictExpiredOnly(ents, order, tested, evicted, t) ==
  IF order = <<>> THEN ents
  ELSE LET k   == Head(order)
           exp == ~WLess(W(t), ents[k].deadline)
           e1  == IF exp THEN [x \in (DOMAIN ents) \ {k} |-> ents[x]] ELSE ents
       IN IF tested + 1 < Probes
          THEN evictExpiredOnly(e1, Tail(order), tested + 1, evicted, t)
          ELSE e1

\* The eviction loop of put over the entries in the order the map iteration
\* yields them (order: the keys it visits, no key twice).
RECURSIVE evict(_, _, _, _, _)
evict(ents, order, tested, evicted, t) ==
  IF order = <<>> THEN ents
  ELSE LET k   == Head(order)
           exp == expired(ents[k].deadline, t)
           e1  == IF exp THEN Remove(ents, k) ELSE ents
           ev1 == IF exp THEN evicted + 1 ELSE evicted
           t1  == tested + 1
       IN IF t1 < Probes THEN evict(e1, Tail(order), t1, ev1, t)
          ELSE IF ev1 = 0 /\ Cardinality(DOMAIN e1) >= N_MAX
               THEN Remove(e1, k)          \* delete at least one entry
               ELSE e1

\* The orders in which the map iteration of put can visit the entries, up to
\* the probe at which the loop breaks.
ProbeOrders(ents) ==
  LET n == Min(Probes, Cardinality(DOMAIN ents))
  IN {s \in [1..n -> DOMAIN ents] : \A i, j \in 1..n : i # j => s[i] # s[j]}

\* cache.put at clock t: the entries after the call.
put(ents, t, req, res, order) ==
  IF putInvalid(req, res) THEN ents
  ELSE LET ttl == getTTL(res) IN
       IF WLeq(ttl, W(0)) THEN ents
       ELSE Store(evict(ents, order, 0, 0, t), Drop(req, 2),
                  [deadline |-> WAdd(W(t), ttl), value |-> Drop(res, 2)])

\* Mutant: get returns the stored value without prepending the request's ID.
getNoID(ents, t, req) ==
  IF Len(req) < 12 THEN <<>>
  ELSE IF req[3] >= 127 THEN <<>>
  ELSE LET key == Drop(req, 2) IN
       IF key \in DOMAIN ents /\ WLess(W(t), ents[key].deadline)
       THEN ents[key].value
       ELSE <<>>

\* cache.get at clock t: the response, <<>> when absent.
get(ents, t, req) ==
  IF Len(req) < 12 THEN <<>>
  ELSE IF req[3] >= 127 THEN <<>>
  ELSE LET key == Drop(req, 2) IN
       IF key \in DOMAIN ents /\ ~expired(ents[key].deadline, t)
       THEN Take(req, 2) \o ents[key].value
       ELSE <<>>

\* ------------------------------------------------------------- messages
\* The messages the model exchanges, built as a DNS client and server build
\* them: a 12-byte header, one question, answer records.
Header(id, b2, qd, an) == <<id[1], id[2], b2, 0, 0, qd, 0, an, 0, 0, 0, 0>>

\* A question for the one-label name <<c>>, type A, class IN.
Question(c) == <<1, c, 0, 0, 1, 0, 1>>

\* An answer record: a compression pointer to the question's name, type A,
\* class IN, the TTL (4 bytes, big-endian), RDLENGTH 1 and one byte of data.
Answer(ttl) == <<192, 12, 0, 1, 0, 1>> \o ttl \o <<0, 1, 9>>

RECURSIVE Answers(_)
Answers(ttls) == IF ttls = <<>> THEN <<>> ELSE Answer(Head(ttls)) \o Answers(Tail(ttls))

Query(id, b2, c) == Header(id, b2, 1, 0) \o Question(c)

Reply(id, b2, c, ttls) == Header(id, b2, 1, Len(ttls)) \o Question(c) \o Answers(ttls)

\* A message shorter than a header.
ShortMsg == <<0, 1, 0>>

T0 == <<0, 0, 0, 0>>
T1 == <<0, 0, 0, 1>>
T2 == <<0, 0, 0, 2>>
TBig == <<128, 0, 0, 0>>

ID1 == <<0, 1>>
ID2 == <<171, 205>>

\* ------------------------------------------------------------- state
VARIABLES
  entries,   \* cache.entries
  now,       \* the clock, in ticks
  got,       \* the request and result of the cache.get that has just returned
  src        \* history: for each stored key, the response it was last put
             \* from and the clock at that put

VARIABLES
  cc,        \* the cachingConns of one caching dialer
  ret,       \* what the cachingConn.Read that has just returned has returned
  expect     \* history: for each key a Read has fetched a valid response
             \* for, that response and the instant its minimum TTL ends

VARIABLES
  conn,      \* one adapter connection: a dnsConn or a dohConn
  rd,        \* the goroutines calling Read on it: position and locals
  out,       \* what the Read on it that has just returned has returned
  hist       \* history: what was written, answered, delivered and closed

VARIABLES
  frame      \* one connection that writeMessage writes to and readMessage
             \* reads from, and the history of the messages written to it

cacheVars == <<entries, now, got, src>>

cachingVars == <<cc, ret, expect>>

connVars == <<conn, rd, out, hist>>

VARIABLES
  dial       \* the endpoint list of one DoT or DoH resolver, its index, the
             \* goroutines in its dial function, and the history of the dials

VARIABLES
  uri        \* one call of NewDoHResolver: the URI template it is given and
             \* what parseURITemplate makes of it

VARIABLES
  opp        \* the opportunistic dialer: badServers, the goroutines in the
             \* dial function, and the call that has just returned

VARIABLES
  neg        \* the NegativeCache option of the caching dialer, and the put
             \* that has just returned

VARIABLES
  fn,        \* one call of a function of the wire codec or of the checks of
             \* put: its arguments and what it returns
  ev,        \* history: the put that has just returned, the entries it found
             \* and the order in which its loop visited them
  lk         \* the mutex of the dnsConn and the goroutines that call its
             \* methods, each with the function it is in and its place there

callVars == <<fn, ev, lk>>

netVars == <<frame, dial, uri, opp, neg, callVars>>

vars == <<entries, now, got, src, cc, ret, expect, conn, rd, out, hist, frame, dial, uri, opp, neg, fn, ev, lk>>

NoGet == [req |-> <<>>, res |-> <<>>]

\* The buffer lengths callers read with: shorter and longer than a response.
SmallBuf == 16
BigBuf == 40

\* The queries one cachingConn queues at most.
MaxQueue == 1

CConns == {1, 2}

\* No Read has just returned. In a return, dialed tells whether the Read has
\* called the parent dial, and due (history) is the response the Read was
\* owed from the cache when it started, <<>> when none.
NoReturn == [err |-> "none", n |-> 0, data |-> <<>>, dialed |-> FALSE, due |-> <<>>]

Return(err, n, data, dialed, due) ==
  [err |-> err, n |-> n, data |-> data, dialed |-> dialed, due |-> due]

\* A cachingConn as NewCachingDialer's dial function returns it. cancel and
\* closer tell whether the fields are non-nil; deadline is 0 for the zero
\* time.Time, 1 for an instant still ahead. pc, req and blen are the position
\* and the locals of the Read in progress, ctx the state of its dial context
\* and childClosed whether its child connection has been closed; due
\* (history) is the response the Read in progress was owed from the cache
\* when it started, <<>> when none.
NewCachingConn ==
  [queue |-> <<>>, cancel |-> FALSE, closer |-> FALSE, deadline |-> 0,
   pc |-> "idle", req |-> <<>>, blen |-> 0, ctx |-> "none",
   childClosed |-> FALSE, due |-> <<>>]

\* The goroutines that call Read on the adapter connection.
Readers == {1, 2}

\* The queries written to the adapter connection at most.
MaxWrites == 2

\* The shorter of the two buffer lengths Read is called with: every response
\* is one byte longer. The longer one holds a response and its length prefix.
ShortLen == 2

LongLen == ShortLen + 3

Kinds == {"dns", "doh"}

\* No Read on the adapter connection has just returned. In a return, r is the
\* goroutine, data the n bytes left in its buffer, resLen (history) the length
\* of the HTTP response body read from, blen the length of the buffer and
\* afterClose (history) whether the Read started after a Close had returned.
NoOut ==
  [r |-> 0, err |-> "none", n |-> 0, data |-> <<>>, resLen |-> 0, blen |-> 0,
   afterClose |-> FALSE]

Out(r, err, n, data, resLen, blen, afterClose) ==
  [r |-> r, err |-> err, n |-> n, data |-> data, resLen |-> resLen,
   blen |-> blen, afterClose |-> afterClose]

\* A Read not in progress. In progress, imsg and blen are its locals and ctx
\* the context it hands to the round-trip: "background" has no deadline and
\* no cancel function, "live" has both, "expired" is past its deadline and
\* "cancelled" had its cancel function called. afterClose and closedDuring
\* (history) tell whether the Read started after a Close had returned and
\* whether Close has been called during its round-trip.
IdleRead ==
  [pc |-> "idle", imsg |-> <<>>, blen |-> 0, ctx |-> "none",
   afterClose |-> FALSE, closedDuring |-> FALSE]

\* A dnsConn or dohConn as constructed: ibuf and obuf are the dnsConn's
\* buffers, queue the dohConn's; cancel is 0 for nil, else the reader whose
\* context the stored function cancels; deadline is 0 for the zero
\* time.Time, 1 for an instant still ahead.
NewConn(kind) ==
  [kind |-> kind, ibuf |-> <<>>, obuf |-> <<>>, queue |-> <<>>, cancel |-> 0,
   deadline |-> 0]

\* History: the number of queries written, the IDs of the queries whose
\* round-trip has returned a response, the byte chunks Reads have delivered
\* in the order of their returns, whether Close has returned, the number of
\* bytes written of a query that is not yet written whole, and the request
\* and response of every round-trip that has returned a response, in the
\* order of the returns.
NoHist ==
  [writes |-> 0, done |-> {}, delivered |-> <<>>, closed |-> FALSE,
   part |-> 0, trips |-> <<>>]

\* The state after construction: an empty cache, the cachingConns as the
\* dialer returns them, the one adapter connection a dnsConn.
CoreInit ==
  /\ entries = NoEntries /\ now = 0 /\ got = NoGet /\ src = NoEntries
  /\ cc = [c \in CConns |-> NewCachingConn] /\ ret = NoReturn /\ expect = NoEntries
  /\ conn = NewConn("dns") /\ rd = [r \in Readers |-> IdleRead]
  /\ out = NoOut /\ hist = NoHist

\* A connection between writeMessage and readMessage, nothing written: a
\* packet connection or a stream. bytes is what a stream holds, dgrams the
\* datagrams a packet connection holds, ended whether the writing side has
\* closed; sent (history) is the lengths of the messages written, nread the
\* number of readMessage calls that have returned a message, and werr and
\* res what the last writeMessage and the last readMessage have returned.
NewFrame(udp) ==
  [udp |-> udp, bytes |-> <<>>, dgrams |-> <<>>, ended |-> FALSE, sent |-> <<>>,
   nread |-> 0, werr |-> "none", res |-> [msg |-> <<>>, err |-> "none"]]

FrameQuiet == frame = NewFrame(FALSE)

\* The goroutines that call one resolver's dial function.
Dialers == {1, 2, 3}

\* A resolver as constructed over a list of the endpoints given: index is 0
\* and no goroutine is in the dial function. ep says of each endpoint
\* whether it refuses connections, accepts them, or does either. failed,
\* moved and log are history: the dials that have failed, the positions the
\* index has moved forward in all, and the address and outcome of every
\* dial that has returned, in the order of the returns; seq is whether no
\* two dials have overlapped so far, batch whether every dial so far has
\* begun before any has returned.
NewDial(ep) ==
  [ep |-> ep, index |-> 0,
   pc |-> [d \in Dialers |-> "idle"], s |-> [d \in Dialers |-> 0],
   failed |-> 0, moved |-> 0, log |-> <<>>, seq |-> TRUE, batch |-> TRUE,
   broken |-> FALSE]

DialQuiet == dial = NewDial(<<"accepting">>)

\* A call of NewDoHResolver with the template given, before it has parsed
\* it. out and err are what parseURITemplate returns for the template, out2
\* and err2 what it returns for out.
NewUri(tpl) ==
  [tpl |-> tpl, stage |-> "new", out |-> <<>>, err |-> FALSE,
   out2 |-> <<>>, err2 |-> FALSE]

UriQuiet == uri = NewUri(<<>>)

\* len(badServers.list).
RingLen == 4

\* The goroutines that call the opportunistic dialer.
OppCallers == {1, 2}

\* No address: the zero value of a slot of badServers.list.
NoAddr == [host |-> "", port |-> ""]

\* A goroutine outside the dial function, and its locals inside it: the
\* arguments of the call, with the deadline of its context as the time left
\* to it, in ticks, and as history whether the address was in
\* badServers when the call looked, the dials the call has made, whether
\* it has written to badServers, and whether the address was in badServers
\* when its addBadServer returned.
IdleCall ==
  [pc |-> "idle", network |-> "", address |-> NoAddr,
   deadline |-> [ok |-> FALSE, left |-> 0],
   bad |-> FALSE, dials |-> <<>>, added |-> FALSE, listed |-> FALSE]

NoResult == [kind |-> "none", network |-> "", address |-> NoAddr]

\* The opportunistic dialer as the package initialises it: badServers is
\* empty, no goroutine is in the dial function, none has returned. calls
\* counts the calls begun; ret is the locals of the call that has just
\* returned with what it has returned; adds (history) is the addresses
\* written to badServers.list, in the order of the writes.
NewOpp ==
  [list |-> [i \in 0..(RingLen - 1) |-> NoAddr], next |-> 0,
   g |-> [c \in OppCallers |-> IdleCall], calls |-> 0,
   ret |-> [call |-> IdleCall, result |-> NoResult],
   adds |-> <<>>]

OppQuiet == opp = NewOpp

NoPut == [req |-> <<>>, res |-> <<>>, changed |-> FALSE]

\* A caching dialer built with NegativeCache(on), no put made: last is the
\* arguments of the put that has just returned and whether it has changed
\* the entries.
NewNeg(on) == [on |-> on, last |-> NoPut]

\* By default negative responses are cached.
NegQuiet == neg = NewNeg(TRUE)

\* A call of the function named with the arguments given, not yet made:
\* arg is the message (for getNameLen the buffer, for the checks of put the
\* pair), why how the message was built, out what the call returns.
NewFn(kind, arg, why) == [kind |-> kind, arg |-> arg, why |-> why, done |-> FALSE, out |-> 0]

FnQuiet == fn = NewFn("none", <<>>, "")

\* No put has returned.
NoEv ==
  [acted |-> FALSE, req |-> <<>>, res |-> <<>>, before |-> NoEntries,
   order |-> <<>>, mid |-> NoEntries]

EvQuiet == ev = NoEv

\* The goroutines that call the methods of one dnsConn: 1 and 2 call Read,
\* 3 calls Write, SetReadDeadline and Close.
LockProcs == {1, 2, 3}

\* A goroutine in no method of the connection. In a method, fn is the
\* function whose body it is to run next under the mutex and pc its place:
\* "lock" before c.Lock() has returned, "in" after it, "trip" in roundTrip;
\* blen, imsg and ctx are the locals of Read.
IdleOp == [pc |-> "idle", fn |-> "none", blen |-> 0, imsg |-> <<>>, ctx |-> "none"]

\* The mutex unlocked (holder 0), no goroutine in a method; writes counts
\* the queries written.
NewLock == [holder |-> 0, writes |-> 0, g |-> [p \in LockProcs |-> IdleOp]]

LockQuiet == lk = NewLock

CallQuiet == FnQuiet /\ EvQuiet /\ LockQuiet

NetQuiet == FrameQuiet /\ DialQuiet /\ UriQuiet /\ OppQuiet /\ NegQuiet /\ CallQuiet

Init == CoreInit /\ NetQuiet

\* One call of cache.put(req, res) for a pair of Pairs: the whole call runs
\* under the write lock.
CachePut(Pairs) ==
  \E p \in Pairs : \E order \in ProbeOrders(entries) :
    LET req == p[1]
        res == p[2]
        new == put(entries, now, req, res, order)
    IN /\ entries' = new
       /\ src' = [k \in DOMAIN new |->
                    IF new = entries THEN src[k]
                    ELSE IF k = Drop(req, 2) THEN [res |-> res, at |-> now]
                    ELSE src[k]]
       /\ got' = NoGet
       /\ now' = now
       /\ UNCHANGED <<cachingVars, connVars, netVars>>

\* One call of cache.get(req), under the read lock.
CacheGet(Reqs) ==
  \E req \in Reqs :
    /\ got' = [req |-> req, res |-> get(entries, now, req)]
    /\ UNCHANGED <<entries, now, src>>
    /\ UNCHANGED <<cachingVars, connVars, netVars>>

\* Time passes.
Tick ==
  /\ now < MaxClock
  /\ now' = now + 1
  /\ got' = NoGet
  /\ UNCHANGED <<entries, src>>
  /\ UNCHANGED <<cachingVars, connVars, netVars>>

\* The TTL fields of the records of a response built by Reply, read at their
\* offsets in that layout: 19 bytes of header and question, 13 bytes a record,
\* the TTL after the 6 bytes of name, type and class.
RecordTTLs(res) ==
  [i \in 1..res[8] |-> SubSeq(res, 19 + 13 * (i - 1) + 7, 19 + 13 * (i - 1) + 10)]

\* The value of a TTL field, wide.
TTLValue(b) == <<b[1] * 256 + b[2], b[3] * 256 + b[4]>>

\* ------------------------------------------------------------- cachingConn
\* The name a query built by Query asks for.
QName(req) == req[14]

\* Whether res is a whole message of the layout of Reply.
WholeReply(res) == Len(res) >= 12 /\ Len(res) = 19 + 13 * res[8]

\* Whether res is a valid response for the query req in the words of the
\* spec: a query and a response of matching IDs, with records, the minimum
\* of their TTLs positive.
ValidFor(req, res) ==
  /\ Len(req) >= 12 /\ WholeReply(res)
  /\ req[1] = res[1] /\ req[2] = res[2]
  /\ req[3] < 128 /\ res[3] >= 128
  /\ res[8] > 0
  /\ \A i \in 1..res[8] : WLess(W(0), TTLValue(RecordTTLs(res)[i]))

\* The instant the minimum TTL of res ends when res arrives at clock t.
MinTTLEnd(res, t) ==
  LET ttls == RecordTTLs(res)
      least == CHOOSE i \in 1..Len(ttls) :
                 \A j \in 1..Len(ttls) : WLeq(TTLValue(ttls[i]), TTLValue(ttls[j]))
  IN WAdd(W(t), WMul(TTLValue(ttls[least]), Second))

\* The response a Read of req into a buffer of blen bytes is owed from the
\* cache: a valid response was fetched for a query of the same bytes after
\* the ID, its TTL has not ended, its entry was not evicted, and it fits.
Owed(req, blen) ==
  LET key == Drop(req, 2) IN
  IF /\ key \in DOMAIN expect
     /\ WLess(W(now), expect[key].until)
     /\ blen >= Len(expect[key].res)
  THEN Take(req, 2) \o Drop(expect[key].res, 2)
  ELSE <<>>

\* The queries written to connection c: each connection under its own ID
\* with byte 2 all zero, the first connection also with every bit of byte 2
\* but QR set.
CachingReqs(c) ==
  IF c = 1 THEN {Query(ID1, 0, 97), Query(ID1, 127, 97)} ELSE {Query(ID2, 0, 97)}

\* cachingConn.Write, called as the resolver calls it: after SetDeadline,
\* and not while a Read is in progress.
CachingWrite ==
  \E c \in CConns : \E b \in CachingReqs(c) :
    /\ cc[c].deadline # 0
    /\ cc[c].pc = "idle"
    /\ Len(cc[c].queue) < MaxQueue
    /\ cc' = [cc EXCEPT ![c].queue = Append(@, b)]
    /\ ret' = NoReturn
    /\ UNCHANGED <<cacheVars, expect, connVars, netVars>>

\* cachingConn.SetReadDeadline (and SetDeadline) with an instant still ahead
CachingSetDeadline ==
  \E c \in CConns :
    /\ cc[c].deadline = 0
    /\ cc' = [cc EXCEPT ![c].deadline = 1]
    /\ ret' = NoReturn
    /\ UNCHANGED <<cacheVars, expect, connVars, netVars>>

\* cachingConn.Read up to the dial: dequeue, then the cache; on a miss
\* dialContext stores the cancel function of a context with the stored
\* deadline, which has already passed when that is the zero time.
CachingReadStart ==
  \E c \in CConns, blen \in {SmallBuf, BigBuf} :
    /\ cc[c].pc = "idle"
    /\ LET q == cc[c].queue IN
       IF q = <<>>
       THEN /\ ret' = Return("EOF", 0, <<>>, FALSE, <<>>)
            /\ cc' = cc
       ELSE LET req == Head(q)
                res == get(entries, now, req)
            IN IF res # <<>>
               THEN /\ cc' = [cc EXCEPT ![c].queue = Tail(q)]
                    /\ ret' = IF blen < Len(res)
                              THEN Return("ErrShortBuffer", 0, <<>>, FALSE, Owed(req, blen))
                              ELSE Return("nil", Len(res), res, FALSE, Owed(req, blen))
               ELSE /\ cc' = [cc EXCEPT
                         ![c].queue = Tail(q),
                         ![c].due = Owed(req, blen),
                         ![c].pc = "dialing",
                         ![c].req = req,
                         ![c].blen = blen,
                         ![c].cancel = TRUE,
                         ![c].ctx = IF cc[c].deadline = 0 THEN "expired" ELSE "live",
                         ![c].childClosed = FALSE]
                    /\ ret' = NoReturn
    /\ UNCHANGED <<cacheVars, expect, connVars, netVars>>

\* The Read that has returned: its locals are gone.
Returned(r) ==
  [r EXCEPT !.pc = "idle", !.req = <<>>, !.blen = 0, !.ctx = "none",
            !.childClosed = FALSE, !.due = <<>>]

\* cachingConn.Read, the dial returns: with an error (the only outcome once
\* the context is done), or with a child connection, which setDeadline
\* stores as closer.
CachingReadDialed ==
  \E c \in CConns :
    /\ cc[c].pc = "dialing"
    /\ \/ /\ cc' = [cc EXCEPT ![c] = Returned(@)]
          /\ ret' = Return("dial", 0, <<>>, TRUE, cc[c].due)
       \/ /\ cc[c].ctx = "live"
          /\ cc' = [cc EXCEPT ![c].pc = "exchanging", ![c].closer = TRUE]
          /\ ret' = NoReturn
    /\ UNCHANGED <<cacheVars, expect, connVars, netVars>>

\* The responses the back-end sends to req: the question answered with one
\* record, or answered under another ID.
Backend(req) ==
  {Reply(Take(req, 2), 128, QName(req), ttls) : ttls \in {<<T0>>, <<T1>>}}
    \cup {Reply(<<9, 9>>, 128, QName(req), <<T1>>)}

\* cachingConn.Read, the exchange on the child connection: an I/O error (the
\* only outcome once Close has closed the child), or the back-end's response
\* res read into the buffer: a packet connection's Read cuts it to the
\* buffer, a stream is read after its 2-byte length, which must fit. What
\* was read is put in the cache.
CachingReadFinish ==
  \E c \in CConns :
    /\ cc[c].pc = "exchanging"
    /\ UNCHANGED <<connVars, netVars>>
    /\ \/ /\ cc' = [cc EXCEPT ![c] = Returned(@)]
          /\ ret' = Return("io", 0, <<>>, TRUE, cc[c].due)
          /\ UNCHANGED <<cacheVars, expect>>
       \/ /\ ~cc[c].childClosed
          /\ \E res \in Backend(cc[c].req), packet \in BOOLEAN, order \in ProbeOrders(entries) :
               LET req  == cc[c].req
                   blen == cc[c].blen
                   size == Len(res)
               IN IF ~packet /\ blen < size
                  THEN /\ cc' = [cc EXCEPT ![c] = Returned(@)]
                       /\ ret' = Return("ErrShortBuffer", 0, <<>>, TRUE, cc[c].due)
                       /\ UNCHANGED <<cacheVars, expect>>
                  ELSE LET n    == Min(blen, size)
                           data == Take(res, n)
                           new  == put(entries, now, req, data, order)
                           key  == Drop(req, 2)
                           kept == {k \in DOMAIN expect :
                                      ~(k \in DOMAIN entries /\ k \notin DOMAIN new)}
                       IN /\ cc' = [cc EXCEPT ![c] = Returned(@)]
                          /\ ret' = Return("nil", n, data, TRUE, cc[c].due)
                          /\ entries' = new
                          /\ src' = [k \in DOMAIN new |->
                                       IF new = entries THEN src[k]
                                       ELSE IF k = key THEN [res |-> data, at |-> now]
                                       ELSE src[k]]
                          /\ expect' =
                               IF ValidFor(req, data)
                               THEN [k \in kept \cup {key} |->
                                       IF k = key
                                       THEN [res |-> data, until |-> MinTTLEnd(data, now)]
                                       ELSE expect[k]]
                               ELSE [k \in kept |-> expect[k]]
                          /\ UNCHANGED <<now, got>>

\* Mutant: Close also empties the cache.
CachingClosePurge ==
  \E c \in CConns :
    /\ cc[c].cancel \/ cc[c].closer
    /\ cc' = [cc EXCEPT
         ![c].cancel = FALSE,
         ![c].closer = FALSE,
         ![c].ctx = IF cc[c].cancel /\ @ = "live" THEN "cancelled" ELSE @,
         ![c].childClosed = (cc[c].closer /\ cc[c].pc = "exchanging") \/ @]
    /\ ret' = [err |-> "none", n |-> 0, data |-> <<>>, dialed |-> FALSE, due |-> <<>>]
    /\ entries' = [k \in {} |-> 0] /\ src' = [k \in {} |-> 0]
    /\ UNCHANGED <<now, got, expect, connVars, netVars>>

\* cachingConn.Close: calls the stored cancel function, which ends the
\* context of the Read in progress, and closes the stored child connection.
CachingClose ==
  \E c \in CConns :
    /\ cc[c].cancel \/ cc[c].closer
    /\ cc' = [cc EXCEPT
         ![c].cancel = FALSE,
         ![c].closer = FALSE,
         ![c].ctx = IF cc[c].cancel /\ @ = "live" THEN "cancelled" ELSE @,
         ![c].childClosed = (cc[c].closer /\ cc[c].pc = "exchanging") \/ @]
    /\ ret' = NoReturn
    /\ UNCHANGED <<cacheVars, expect, connVars, netVars>>

CachingTick ==
  /\ now < MaxClock
  /\ now' = now + 1
  /\ ret' = NoReturn
  /\ UNCHANGED <<entries, got, src, cc, expect, connVars, netVars>>

NextCaching ==
  \/ CachingWrite
  \/ CachingSetDeadline
  \/ CachingReadStart
  \/ CachingReadDialed
  \/ CachingReadFinish
  \/ CachingClose
  \/ CachingTick

SpecCaching == Init /\ [][NextCaching]_vars

\* ------------------------------------------------------------- dnsConn, dohConn
\* The k-th query written to the connection: its ID is k. The connections
\* pass messages on unread.
ConnQuery(k) == <<k, 0>>

\* A message after its 2-byte big-endian length, as the stream resolver
\* writes it and as fillBuffer answers it.
Frame(m) == <<Len(m) \div 256, Len(m) % 256>> \o m

\* The response the back-end gives to the query req: under the ID of req,
\* QR set, one byte longer than ShortLen.
Respond(req) ==
  (IF req = <<>> THEN <<0>> ELSE <<req[1]>>) \o [i \in 1..ShortLen |-> 128]

\* The responses to the queries of the IDs in done, framed, in the order the
\* queries were written.
RECURSIVE Stream(_, _)
Stream(done, k) ==
  IF k > MaxWrites THEN <<>>
  ELSE (IF k \in done THEN Frame(Respond(ConnQuery(k))) ELSE <<>>) \o Stream(done, k + 1)

\* The ID of a query, 0 for the empty message.
QueryID(req) == IF req = <<>> THEN 0 ELSE req[1]

RECURSIVE Flat(_)
Flat(chunks) == IF chunks = <<>> THEN <<>> ELSE Head(chunks) \o Flat(Tail(chunks))

\* dnsConn.drainBuffers with a buffer of blen bytes: what it returns, the n
\* bytes it puts in the buffer, and the two buffers after it.
drainBuffers(ibuf, obuf, blen) ==
  IF Len(obuf) > 0
  THEN LET n == Min(blen, Len(obuf))
       IN [imsg |-> <<>>, n |-> n, err |-> "nil", data |-> Take(obuf, n),
           ibuf |-> ibuf, obuf |-> Drop(obuf, n)]
  ELSE LET sz   == Take(ibuf, Min(2, Len(ibuf)))
           rest == Drop(ibuf, Len(sz))
       IN IF Len(sz) < 2
          THEN [imsg |-> <<>>, n |-> 0, err |-> "ErrUnexpectedEOF", data |-> <<>>,
                ibuf |-> rest, obuf |-> obuf]
          ELSE LET size   == sz[1] * 256 + sz[2]
                   copied == Min(size, Len(rest))
               IN IF copied < size
                  THEN [imsg |-> <<>>, n |-> 0, err |-> "ErrUnexpectedEOF",
                        data |-> <<>>, ibuf |-> Drop(rest, copied), obuf |-> obuf]
                  ELSE [imsg |-> Take(rest, size), n |-> 0, err |-> "nil",
                        data |-> <<>>, ibuf |-> Drop(rest, size), obuf |-> obuf]

\* Mutant: what of the response does not fit the buffer is dropped.
fillBufferOnce(obuf, blen, str) ==
  LET full == obuf \o Frame(str)
      n    == Min(blen, Len(full))
  IN [n |-> n, data |-> Take(full, n), obuf |-> <<>>]

\* dnsConn.fillBuffer with a buffer of blen bytes: the n bytes it puts in the
\* buffer and the output buffer after it.
fillBuffer(obuf, blen, str) ==
  LET full == obuf \o Frame(str)
      n    == Min(blen, Len(full))
  IN [n |-> n, data |-> Take(full, n), obuf |-> Drop(full, n)]

\* dnsConn.childContext: a context without deadline and a cancel function
\* that does nothing when the stored deadline is the zero time.
childContext(deadline) == IF deadline = 0 THEN "background" ELSE "live"

\* dohConn.context: a context with the stored deadline, which has passed
\* when that is the zero time.
context(deadline) == IF deadline = 0 THEN "expired" ELSE "live"

\* The chunks delivered so far and the n bytes of data of one more return.
Deliver(data) ==
  IF data = <<>> THEN hist.delivered ELSE Append(hist.delivered, data)

\* dnsConn.Write of one framed query, dohConn.Write of one query.
ConnWrite ==
  /\ hist.writes < MaxWrites
  /\ LET q == ConnQuery(hist.writes + 1)
     IN conn' = IF conn.kind = "dns"
                THEN [conn EXCEPT !.ibuf = @ \o Frame(q)]
                ELSE [conn EXCEPT !.queue = Append(@, q)]
  /\ hist' = [hist EXCEPT !.writes = @ + 1]
  /\ out' = NoOut
  /\ UNCHANGED <<rd, cacheVars, cachingVars, netVars>>

\* SetReadDeadline (and SetDeadline): an instant still ahead, or the zero time.
ConnSetDeadline ==
  /\ conn' = [conn EXCEPT !.deadline = 1 - @]
  /\ out' = NoOut
  /\ UNCHANGED <<rd, hist, cacheVars, cachingVars, netVars>>

\* dnsConn.Read by goroutine r up to the round-trip: drainBuffers returns
\* bytes of the output buffer or an error, or the next message, for which
\* childContext makes the context.
DnsReadStart(r, blen) ==
  LET d == drainBuffers(conn.ibuf, conn.obuf, blen) IN
  /\ conn' = [conn EXCEPT !.ibuf = d.ibuf, !.obuf = d.obuf]
  /\ IF d.n # 0 \/ d.err # "nil"
     THEN /\ out' = Out(r, d.err, d.n, d.data, 0, blen, hist.closed)
          /\ hist' = [hist EXCEPT !.delivered = Deliver(d.data)]
          /\ rd' = rd
     ELSE /\ rd' = [rd EXCEPT ![r] =
                      [pc |-> "trip", imsg |-> d.imsg, blen |-> blen,
                       ctx |-> childContext(conn.deadline),
                       afterClose |-> hist.closed, closedDuring |-> FALSE]]
          /\ out' = NoOut
          /\ hist' = hist

\* dohConn.Read by goroutine r up to the request: dequeue, then context,
\* which stores the cancel function of the context it makes.
DohReadStart(r, blen) ==
  IF conn.queue = <<>> \/ Head(conn.queue) = <<>>
  THEN /\ out' = Out(r, "EOF", 0, <<>>, 0, blen, hist.closed)
       /\ conn' = [conn EXCEPT !.queue = IF @ = <<>> THEN @ ELSE Tail(@)]
       /\ UNCHANGED <<rd, hist>>
  ELSE /\ conn' = [conn EXCEPT !.queue = Tail(@), !.cancel = r]
       /\ rd' = [rd EXCEPT ![r] =
                   [pc |-> "trip", imsg |-> Head(conn.queue), blen |-> blen,
                    ctx |-> context(conn.deadline),
                    afterClose |-> hist.closed, closedDuring |-> FALSE]]
       /\ out' = NoOut
       /\ hist' = hist

ConnReadStart ==
  \E r \in Readers, blen \in {ShortLen, LongLen} :
    /\ rd[r].pc = "idle"
    /\ IF conn.kind = "dns" THEN DnsReadStart(r, blen) ELSE DohReadStart(r, blen)
    /\ UNCHANGED <<cacheVars, cachingVars, netVars>>

\* Mutant: a Read whose round-trip fails puts its query back in front of
\* the queued ones.
ConnReadFailRetry ==
  \E r \in Readers :
    /\ rd[r].pc = "trip"
    /\ out' = Out(r, "error", 0, <<>>, 0, rd[r].blen, rd[r].afterClose)
    /\ rd' = [rd EXCEPT ![r] = [pc |-> "idle", imsg |-> <<>>, blen |-> 0, ctx |-> "none",
                                afterClose |-> FALSE, closedDuring |-> FALSE]]
    /\ conn' = [conn EXCEPT !.ibuf = <<0, Len(rd[r].imsg)>> \o rd[r].imsg \o @,
                            !.queue = <<rd[r].imsg>> \o @]
    /\ UNCHANGED <<hist, cacheVars, cachingVars, netVars>>

\* The round-trip of goroutine r fails (the only outcome once its context is
\* done; a status other than 200 counts as a failure): Read returns 0 and
\* the error.
ConnReadFail ==
  \E r \in Readers :
    /\ rd[r].pc = "trip"
    /\ out' = Out(r, "error", 0, <<>>, 0, rd[r].blen, rd[r].afterClose)
    /\ rd' = [rd EXCEPT ![r] = IdleRead]
    /\ UNCHANGED <<conn, hist, cacheVars, cachingVars, netVars>>

\* dnsConn.Read by goroutine r from the return of roundTrip: fillBuffer.
DnsReadFinish(r, res) ==
  LET f == fillBuffer(conn.obuf, rd[r].blen, res) IN
  /\ conn' = [conn EXCEPT !.obuf = f.obuf]
  /\ out' = Out(r, "nil", f.n, f.data, 0, rd[r].blen, rd[r].afterClose)
  /\ hist' = [hist EXCEPT !.delivered = Deliver(f.data),
                          !.done = @ \cup {QueryID(rd[r].imsg)},
                          !.trips = Append(@, <<rd[r].imsg, res>>)]

\* dohConn.Read by goroutine r from the 200 response: the loop fills the
\* buffer from the body until the buffer is full or the body ends (or, after
\* fewer bytes, fails), then looks for one more byte of body.
DohReadFinish(r, res) ==
  LET blen == rd[r].blen
      n    == Min(blen, Len(res))
  IN /\ conn' = conn
     /\ \/ /\ out' = Out(r, IF Len(res) > blen THEN "ErrShortBuffer" ELSE "nil",
                         n, Take(res, n), Len(res), blen, rd[r].afterClose)
           /\ hist' = [hist EXCEPT !.delivered = Deliver(Take(res, n)),
                                   !.done = @ \cup {QueryID(rd[r].imsg)},
                                   !.trips = Append(@, <<rd[r].imsg, res>>)]
        \/ \E k \in 0..(n - 1) :
             /\ out' = Out(r, "error", k, Take(res, k), Len(res), blen, rd[r].afterClose)
             /\ hist' = [hist EXCEPT !.delivered = Deliver(Take(res, k))]

\* The round-trip of goroutine r returns a response, its context not done.
ConnReadFinish ==
  \E r \in Readers :
    /\ rd[r].pc = "trip"
    /\ rd[r].ctx \in {"background", "live"}
    /\ LET res == Respond(rd[r].imsg)
       IN IF conn.kind = "dns" THEN DnsReadFinish(r, res) ELSE DohReadFinish(r, res)
    /\ rd' = [rd EXCEPT ![r] = IdleRead]
    /\ UNCHANGED <<cacheVars, cachingVars, netVars>>

\* Close: calls the stored cancel function when there is one. A dnsConn
\* stores none; a dohConn stores that of the context made last.
ConnClose ==
  /\ rd' = [r \in Readers |->
              IF rd[r].pc # "trip" THEN rd[r]
              ELSE [rd[r] EXCEPT
                      !.closedDuring = TRUE,
                      !.ctx = IF conn.cancel = r /\ @ = "live" THEN "cancelled" ELSE @]]
  /\ hist' = [hist EXCEPT !.closed = TRUE]
  /\ out' = NoOut
  /\ UNCHANGED <<conn, cacheVars, cachingVars, netVars>>

NextConn ==
  \/ ConnWrite
  \/ ConnSetDeadline
  \/ ConnReadStart
  \/ ConnReadFail
  \/ ConnReadFinish
  \/ ConnClose

\* The state after construction, the one connection a dnsConn or a dohConn.
InitConn ==
  \E kind \in Kinds :
    /\ entries = NoEntries /\ now = 0 /\ got = NoGet /\ src = NoEntries
    /\ cc = [c \in CConns |-> NewCachingConn] /\ ret = NoReturn /\ expect = NoEntries
    /\ conn = NewConn(kind) /\ rd = [r \in Readers |-> IdleRead]
    /\ out = NoOut /\ hist = NoHist
    /\ NetQuiet

SpecConn == InitConn /\ [][NextConn]_vars

\* --- a dnsConn read by one goroutine and written in pieces
\* The lengths of the buffers the one goroutine reads with: a single byte,
\* and the two lengths of the concurrent readers.
StreamLens == {1, ShortLen, LongLen}

\* dnsConn.Write of some of the bytes, at least one, that are not yet written
\* of the next framed query.
StreamWrite ==
  /\ hist.writes < MaxWrites
  /\ LET f == Frame(ConnQuery(hist.writes + 1))
     IN \E n \in 1..(Len(f) - hist.part) :
          /\ conn' = [conn EXCEPT !.ibuf = @ \o SubSeq(f, hist.part + 1, hist.part + n)]
          /\ hist' = IF hist.part + n = Len(f)
                     THEN [hist EXCEPT !.writes = @ + 1, !.part = 0]
                     ELSE [hist EXCEPT !.part = @ + n]
  /\ out' = NoOut
  /\ UNCHANGED <<rd, cacheVars, cachingVars, netVars>>

\* dnsConn.Read by the one goroutine, up to the round-trip.
StreamReadStart ==
  \E blen \in StreamLens :
    /\ rd[1].pc = "idle"
    /\ DnsReadStart(1, blen)
    /\ UNCHANGED <<cacheVars, cachingVars, netVars>>

NextStream ==
  \/ StreamWrite
  \/ StreamReadStart
  \/ ConnReadFail
  \/ ConnReadFinish

SpecStream == Init /\ [][NextStream]_vars

\* --- the mutex of a dnsConn
\* The functions that lock the mutex, each the first that a method a
\* goroutine calls comes to: Read begins in drainBuffers.
Methods(p) ==
  IF p \in Readers THEN {"drainBuffers"} ELSE {"Write", "SetReadDeadline", "Close"}

\* The lengths of the buffers of the Reads.
LockLens == {ShortLen, LongLen}

\* Mutant: childContext returns with the mutex locked.
UnlockLate(f, p) == IF f = "childContext" THEN p ELSE 0

\* c.Unlock(), deferred or not, at the end of what function f does under
\* the mutex: the holder after it.
Unlock(f, p) == 0

\* A goroutine calls Read, Write, SetReadDeadline or Close and comes to the
\* c.Lock() of it.
LockCall(p) ==
  \E f \in Methods(p), blen \in LockLens :
    /\ lk.g[p].pc = "idle"
    /\ f = "Write" => lk.writes < MaxWrites
    /\ lk' = [lk EXCEPT !.g[p] = [IdleOp EXCEPT
                                    !.pc = "lock", !.fn = f,
                                    !.blen = IF f = "drainBuffers" THEN blen ELSE 0]]
    /\ UNCHANGED <<cacheVars, cachingVars, connVars, frame, dial, uri, opp, neg, fn, ev>>

\* c.Lock() returns to a goroutine: the mutex was unlocked.
LockAcquire(p) ==
  /\ lk.g[p].pc = "lock"
  /\ lk.holder = 0
  /\ lk' = [lk EXCEPT !.holder = p, !.g[p].pc = "in"]
  /\ UNCHANGED <<cacheVars, cachingVars, connVars, frame, dial, uri, opp, neg, fn, ev>>

\* The goroutine that holds the mutex does what its function does under it
\* and unlocks: drainBuffers returns bytes or an error to Read, which
\* returns them, or the next message, with which Read calls childContext;
\* with the context of childContext Read calls roundTrip; fillBuffer
\* returns to Read, which returns; Write appends the next framed query;
\* SetReadDeadline stores the deadline; Close finds no cancel function
\* stored and returns.
LockBody(p) ==
  LET me == lk.g[p]
      f  == me.fn
      d  == drainBuffers(conn.ibuf, conn.obuf, me.blen)
      fb == fillBuffer(conn.obuf, me.blen, Respond(me.imsg))
  IN /\ me.pc = "in"
     /\ conn' = CASE f = "drainBuffers" -> [conn EXCEPT !.ibuf = d.ibuf, !.obuf = d.obuf]
                  [] f = "fillBuffer" -> [conn EXCEPT !.obuf = fb.obuf]
                  [] f = "Write" ->
                       [conn EXCEPT !.ibuf = @ \o Frame(ConnQuery(lk.writes + 1))]
                  [] f = "SetReadDeadline" -> [conn EXCEPT !.deadline = 1 - @]
                  [] OTHER -> conn
     /\ lk' = [lk EXCEPT
                 !.holder = Unlock(f, p),
                 !.writes = IF f = "Write" THEN @ + 1 ELSE @,
                 !.g[p] = CASE f = "drainBuffers" /\ d.n = 0 /\ d.err = "nil" ->
                                 [me EXCEPT !.pc = "lock", !.fn = "childContext",
                                            !.imsg = d.imsg]
                            [] f = "childContext" ->
                                 [me EXCEPT !.pc = "trip",
                                            !.ctx = childContext(conn.deadline)]
                            [] OTHER -> IdleOp]
     /\ UNCHANGED <<cacheVars, cachingVars, rd, out, hist, frame, dial, uri, opp, neg, fn, ev>>

\* roundTrip returns to Read: with an error, which Read returns, or with a
\* response, with which Read calls fillBuffer.
LockTripReturn(p) ==
  \E ok \in BOOLEAN :
    /\ lk.g[p].pc = "trip"
    /\ lk' = [lk EXCEPT !.g[p] = IF ok THEN [@ EXCEPT !.pc = "lock", !.fn = "fillBuffer"]
                                  ELSE IdleOp]
    /\ UNCHANGED <<cacheVars, cachingVars, connVars, frame, dial, uri, opp, neg, fn, ev>>

NextLock ==
  \E p \in LockProcs :
    \/ LockCall(p)
    \/ LockAcquire(p)
    \/ LockBody(p)
    \/ LockTripReturn(p)

\* sync.Mutex hands the mutex to a goroutine that keeps waiting for it, and
\* a goroutine that holds it runs on; nothing makes the back-end answer, and
\* nothing makes a goroutine call a method.
LockFair ==
  \A p \in LockProcs : SF_vars(LockAcquire(p)) /\ WF_vars(LockBody(p))

SpecLock == Init /\ [][NextLock]_vars /\ LockFair

\* --- the cache under load: four names, one ID, responses of two TTLs
Names == {97, 98, 99, 100}

LoadTTLs == {<<T1>>, <<T2>>}

LoadPairs == {<<Query(ID1, 0, c), Reply(ID1, 128, c, ttls)>> : c \in Names, ttls \in LoadTTLs}

LoadReqs == {Query(ID1, 0, c) : c \in Names}

NextCache == CachePut(LoadPairs) \/ CacheGet(LoadReqs) \/ Tick

SpecCache == Init /\ [][NextCache]_vars

\* --- the cache and the header bytes: requests and responses of two IDs and
\* of several values of byte 2, responses with and without records
ReqFlags == {0, 127, 128}

ResFlags == {0, 127, 128}

WireTTLs == {<<>>, <<T0>>, <<T1>>}

WireReqs == {Query(id, f, 97) : id \in {ID1, ID2}, f \in ReqFlags} \cup {Query(ID1, 0, 98), ShortMsg}

WireRess == {Reply(id, f, 97, ttls) : id \in {ID1, ID2}, f \in ResFlags, ttls \in WireTTLs}

WirePairs ==
  {<<q, r>> \in WireReqs \X WireRess : q # Query(ID1, 0, 98)}
    \cup {<<Query(ID1, 0, 98), Reply(ID1, 128, 98, <<T1>>)>>,
          <<Query(ID1, 0, 97), ShortMsg>>}

NextWire == CachePut(WirePairs) \/ CacheGet(WireReqs) \/ Tick

SpecWire == Init /\ [][NextWire]_vars

\* ------------------------------------------------------------- writeMessage, readMessage
\* The length of the buffer readMessage reads a datagram into.
PacketBuf == 4096

\* Go's byte(x) of a non-negative int.
byte(x) == x % 256

\* The message of length n written in the model: every byte value occurs.
Msg(n) == [i \in 1..n |-> (i * 7) % 256]

\* The lengths of the messages written: the least and the greatest of the
\* range, those around a low byte of 255 and those around PacketBuf.
FrameLens == {12, 255, 256, PacketBuf, PacketBuf + 1, 65535}

\* The messages written to one connection at most.
MaxFrames == 2

\* Mutant: the length prefix carries the low byte of the length only.
writeMessageLow(udp, msg) ==
  IF udp THEN msg ELSE <<0, byte(Len(msg))>> \o msg

\* writeMessage: the buffer it hands to conn.Write in its single write.
writeMessage(udp, msg) ==
  IF udp THEN msg
  ELSE <<byte(Len(msg) \div 256), byte(Len(msg))>> \o msg

\* readMessage on a connection holding the bytes (stream) or the datagrams
\* (packet) given, its writing side closed or not: the message and error it
\* returns and what the connection holds after it. A Read of a datagram
\* longer than the buffer leaves its first PacketBuf bytes and drops the
\* rest. The stream branch is called when the bytes it asks for have arrived
\* or the stream has ended.
readMessage(f) ==
  IF f.udp
  THEN IF f.dgrams = <<>>
       THEN [msg |-> <<>>, err |-> "closed", bytes |-> f.bytes, dgrams |-> f.dgrams]
       ELSE LET d == Head(f.dgrams)
                n == Min(PacketBuf, Len(d))
            IN [msg |-> Take(d, n), err |-> "nil", bytes |-> f.bytes,
                dgrams |-> Tail(f.dgrams)]
  ELSE LET sz   == Take(f.bytes, Min(2, Len(f.bytes)))
           rest == Drop(f.bytes, Len(sz))
       IN IF Len(sz) < 2
          THEN [msg |-> <<>>, err |-> IF sz = <<>> THEN "EOF" ELSE "ErrUnexpectedEOF",
                bytes |-> rest, dgrams |-> f.dgrams]
          ELSE LET size == sz[1] * 256 + sz[2]
               IN IF Len(rest) < size
                  THEN [msg |-> <<>>, err |-> "ErrUnexpectedEOF", bytes |-> <<>>,
                        dgrams |-> f.dgrams]
                  ELSE [msg |-> Take(rest, size), err |-> "nil",
                        bytes |-> Drop(rest, size), dgrams |-> f.dgrams]

\* Whether readMessage returns without waiting: a datagram, or the bytes of
\* the prefix and those it announces, have arrived, or the writing side has
\* closed.
readReady(f) ==
  \/ f.ended
  \/ f.udp /\ f.dgrams # <<>>
  \/ /\ ~f.udp /\ Len(f.bytes) >= 2
     /\ Len(f.bytes) >= 2 + f.bytes[1] * 256 + f.bytes[2]

\* One call of writeMessage with a message of a length of FrameLens: the
\* write carries the buffer to the connection, or fails and carries nothing.
FrameWrite ==
  \E n \in FrameLens, ok \in BOOLEAN :
    /\ ~frame.ended
    /\ Len(frame.sent) < MaxFrames
    /\ LET buf == writeMessage(frame.udp, Msg(n))
       IN frame' = IF ~ok THEN [frame EXCEPT !.werr = "error", !.res = NewFrame(FALSE).res]
                   ELSE [frame EXCEPT
                           !.bytes = IF frame.udp THEN @ ELSE @ \o buf,
                           !.dgrams = IF frame.udp THEN Append(@, buf) ELSE @,
                           !.sent = Append(@, n),
                           !.werr = "nil",
                           !.res = NewFrame(FALSE).res]
    /\ UNCHANGED <<cacheVars, cachingVars, connVars, dial, uri, opp, neg, callVars>>

\* One call of readMessage.
FrameRead ==
  /\ readReady(frame)
  /\ LET r == readMessage(frame)
     IN frame' = [frame EXCEPT
                    !.bytes = r.bytes,
                    !.dgrams = r.dgrams,
                    !.nread = IF r.err = "nil" THEN @ + 1 ELSE @,
                    !.werr = "none",
                    !.res = [msg |-> r.msg, err |-> r.err]]
  /\ UNCHANGED <<cacheVars, cachingVars, connVars, dial, uri, opp, neg, callVars>>

\* The writing side closes the connection.
FrameEnd ==
  /\ ~frame.ended
  /\ frame' = [frame EXCEPT !.ended = TRUE, !.werr = "none", !.res = NewFrame(FALSE).res]
  /\ UNCHANGED <<cacheVars, cachingVars, connVars, dial, uri, opp, neg, callVars>>

NextFrame == FrameWrite \/ FrameRead \/ FrameEnd

\* The state after construction, the connection a stream or a packet
\* connection.
InitFrame == CoreInit /\ CallQuiet /\ DialQuiet /\ UriQuiet /\ OppQuiet /\ NegQuiet /\ \E udp \in BOOLEAN : frame = NewFrame(udp)

SpecFrame == InitFrame /\ [][NextFrame]_vars

\* ------------------------------------------------------------- endpoint rotation
\* The endpoints of a resolver at most.
MaxAddrs == 3

\* The dials begun on one resolver at most.
MaxDials == 4

\* len(opts.addrs); the addresses are opts.addrs[0] .. opts.addrs[len - 1],
\* held as ep[1] .. ep[len].
nAddrs == Len(dial.ep)

\* Mutant: the index is stored whatever it holds.
StoreUint32(index, old, new) == new

\* atomic.CompareAndSwapUint32: the value of the index after the call.
CompareAndSwapUint32(index, old, new) == IF index = old THEN new ELSE index

\* Mutant: a failed dial proposes the address after the next.
skipAddr(s, n) == (s + 2) % n

\* Mutant: a failed dial proposes the first address.
firstAddr(s, n) == 0

\* Mutant: a failed dial proposes the address it has just tried.
sameAddr(s, n) == s

\* The index a failed dial to opts.addrs[s] proposes.
nextAddr(s, n) == (s + 1) % n

\* Mutant: a failed dial adds one to the index without comparing it.
addOnError(ok, index, s, n) == IF ok THEN index ELSE (index + 1) % n

\* Mutant: the index moves on after a connection as after an error.
afterAnyDial(ok, index, s, n) == IF index = s THEN (s + 1) % n ELSE index

\* The index after a dial to opts.addrs[s] has returned: "if err != nil"
\* the compare-and-swap, else nothing.
afterDial(ok, index, s, n) ==
  IF ok THEN index ELSE CompareAndSwapUint32(index, s, nextAddr(s, n))

\* The outcomes a dial to an endpoint can have: TRUE is a connection.
Outcomes(e) ==
  CASE e = "refusing"  -> {FALSE}
    [] e = "accepting" -> {TRUE}
    [] OTHER           -> BOOLEAN

\* The dials begun so far.
Begun == Len(dial.log) + Cardinality({d \in Dialers : dial.pc[d] = "dialing"})

\* A goroutine enters the dial function: it loads the index and begins to
\* dial opts.addrs[s].
DialLoad(d) ==
  /\ dial.pc[d] = "idle"
  /\ Begun < MaxDials
  /\ dial' = [dial EXCEPT
                !.pc[d] = "dialing",
                !.s[d] = dial.index,
                !.seq = @ /\ \A e \in Dialers : dial.pc[e] = "idle",
                !.batch = @ /\ dial.log = <<>>]
  /\ UNCHANGED <<cacheVars, cachingVars, connVars, frame, uri, opp, neg, callVars>>

\* The dial returns: with an error, the goroutine moves the index on if it
\* still holds what the goroutine loaded, and returns the error; with a
\* connection, it returns the connection.
DialReturn(d) ==
  /\ dial.pc[d] = "dialing"
  /\ \E ok \in Outcomes(dial.ep[dial.s[d] + 1]) :
       LET s     == dial.s[d]
           index == afterDial(ok, dial.index, s, nAddrs)
       IN dial' = [dial EXCEPT
                     !.pc[d] = "idle",
                     !.index = index,
                     !.failed = IF ok THEN @ ELSE @ + 1,
                     !.moved = @ + ((index - dial.index) % nAddrs),
                     !.log = Append(@, [s |-> s, ok |-> ok])]
  /\ UNCHANGED <<cacheVars, cachingVars, connVars, frame, uri, opp, neg, callVars>>

NextDial == \E d \in Dialers : DialLoad(d) \/ DialReturn(d)

\* The state after construction, over a list of 1 to MaxAddrs endpoints.
InitDial ==
  /\ CoreInit /\ CallQuiet /\ FrameQuiet /\ UriQuiet /\ OppQuiet /\ NegQuiet
  /\ \E n \in 1..MaxAddrs :
       \E ep \in [1..n -> {"refusing", "accepting", "either"}] : dial = NewDial(ep)

SpecDial == InitDial /\ [][NextDial]_vars

\* A connection that the dial function has returned fails in the hands of
\* its caller: the TLS handshake, which tls.Client leaves to the first read
\* or write, or a later read or write. The dial function has returned by
\* then, and nothing else holds the index.
ConnError(d) ==
  /\ dial.pc[d] = "idle"
  /\ \E k \in 1..Len(dial.log) : dial.log[k].ok
  /\ ~dial.broken
  /\ dial' = [dial EXCEPT !.broken = TRUE]
  /\ UNCHANGED <<cacheVars, cachingVars, connVars, frame, uri, opp, neg, callVars>>

NextDialConn == \E d \in Dialers : DialLoad(d) \/ DialReturn(d) \/ ConnError(d)

\* The dial function and the connections it returns.
SpecDialConn == InitDial /\ [][NextDialConn]_vars

\* --- dials without end: the endpoints accept or refuse for good, at
\* least one accepts, and the record kept is the last return only.
\* A goroutine enters the dial function.
LiveLoad(d) ==
  /\ dial.pc[d] = "idle"
  /\ dial' = [dial EXCEPT !.pc[d] = "dialing", !.s[d] = dial.index]
  /\ UNCHANGED <<cacheVars, cachingVars, connVars, frame, uri, opp, neg, callVars>>

\* The dial returns.
LiveReturn(d) ==
  /\ dial.pc[d] = "dialing"
  /\ \E ok \in Outcomes(dial.ep[dial.s[d] + 1]) :
       LET s     == dial.s[d]
           index == afterDial(ok, dial.index, s, nAddrs)
       IN dial' = [dial EXCEPT
                     !.pc[d] = "idle",
                     !.index = index,
                     !.moved = Min(@ + ((index - dial.index) % nAddrs), nAddrs),
                     !.log = <<[s |-> s, ok |-> ok]>>]
  /\ UNCHANGED <<cacheVars, cachingVars, connVars, frame, uri, opp, neg, callVars>>

NextDialLive == \E d \in Dialers : LiveLoad(d) \/ LiveReturn(d)

InitDialLive ==
  /\ CoreInit /\ CallQuiet /\ FrameQuiet /\ UriQuiet /\ OppQuiet /\ NegQuiet
  /\ \E n \in 1..MaxAddrs :
       \E ep \in [1..n -> {"refusing", "accepting"}] :
         /\ \E i \in 1..n : ep[i] = "accepting"
         /\ dial = [NewDial(ep) EXCEPT !.seq = FALSE, !.batch = FALSE]

\* Dials keep being issued by every goroutine, and every dial returns.
SpecDialLive ==
  /\ InitDialLive /\ [][NextDialLive]_vars
  /\ \A d \in Dialers : WF_vars(LiveLoad(d)) /\ WF_vars(LiveReturn(d))

\* ------------------------------------------------------------- parseURITemplate
\* The length of a URI template at most.
MaxURI == 5

\* The bytes of the templates: the two braces and two others.
Chars == {"h", "?", "{", "}"}

RECURSIVE SeqsUpTo(_)
\* The sequences of Chars of the length given at most.
SeqsUpTo(n) ==
  IF n = 0 THEN {<<>>}
  ELSE LET S == SeqsUpTo(n - 1)
       IN S \cup {Append(t, c) : t \in {u \in S : Len(u) = n - 1}, c \in Chars}

Templates == SeqsUpTo(MaxURI)

\* Mutant: the byte is written inside an expansion too.
writeAlways(exp, buf, c) == Append(buf, c)

\* The default case of the switch: the byte is written outside an
\* expansion only.
writeByte(exp, buf, c) == IF ~exp THEN Append(buf, c) ELSE buf

RECURSIVE parseLoop(_, _, _, _)
\* The loop of parseURITemplate from byte i (counted from 1) on, with the
\* flag and the buffer as they are before it; what the function returns.
parseLoop(u, i, exp, buf) ==
  IF i > Len(u) THEN [out |-> buf, err |-> FALSE]
  ELSE CASE u[i] = "{" -> IF exp THEN [out |-> <<>>, err |-> TRUE]
                          ELSE parseLoop(u, i + 1, TRUE, buf)
         [] u[i] = "}" -> IF ~exp THEN [out |-> <<>>, err |-> TRUE]
                          ELSE parseLoop(u, i + 1, FALSE, buf)
         [] OTHER      -> parseLoop(u, i + 1, exp, writeByte(exp, buf, u[i]))

parseURITemplate(u) == parseLoop(u, 1, FALSE, <<>>)

\* NewDoHResolver parses the template it is given; with an error it returns
\* the error.
UriParse ==
  /\ uri.stage = "new"
  /\ LET r == parseURITemplate(uri.tpl)
     IN uri' = [uri EXCEPT !.stage = "parsed", !.out = r.out, !.err = r.err]
  /\ UNCHANGED <<cacheVars, cachingVars, connVars, frame, dial, opp, neg, callVars>>

\* The URI that parseURITemplate has returned is given to it as a template.
UriReparse ==
  /\ uri.stage = "parsed" /\ ~uri.err
  /\ LET r == parseURITemplate(uri.out)
     IN uri' = [uri EXCEPT !.stage = "reparsed", !.out2 = r.out, !.err2 = r.err]
  /\ UNCHANGED <<cacheVars, cachingVars, connVars, frame, dial, opp, neg, callVars>>

NextUri == UriParse \/ UriReparse

\* The state at a call of NewDoHResolver with a template of Templates.
InitUri ==
  /\ CoreInit /\ CallQuiet /\ FrameQuiet /\ DialQuiet /\ OppQuiet /\ NegQuiet
  /\ \E tpl \in Templates : uri = NewUri(tpl)

SpecUri == InitUri /\ [][NextUri]_vars

\* ------------------------------------------------------------- opportunistic dialer
\* The calls of the opportunistic dialer at most.
MaxCalls == 5

\* The networks and addresses the dialer is called with: as many servers on
\* port 53 as badServers holds and one more by the name of the port, one
\* on another port and over the other network.
OppArgs ==
  {[network |-> "udp", address |-> [host |-> h, port |-> "53"]] :
     h \in {"h1", "h2", "h3", "h4"}}
    \cup {[network |-> "udp", address |-> [host |-> "h1", port |-> "domain"]],
          [network |-> "tcp", address |-> [host |-> "h1", port |-> "80"]]}

\* The deadlines of the contexts the dialer is called with: none, and
\* deadlines a tick less and a tick more than two seconds from now.
OppDeadlines ==
  {[ok |-> FALSE, left |-> 0]}
    \cup {[ok |-> TRUE, left |-> l] : l \in {2 * Second - 1, 2 * Second + 1}}

\* Mutant: no address is a bad server.
notBadAny(list, address) == TRUE

\* notBadServer under the lock.
notBadServer(list, address) == \A i \in DOMAIN list : list[i] # address

\* Mutant: any deadline is far enough.
anyDeadline(deadline) == deadline.ok

\* ok && deadline.After(time.Now().Add(2*time.Second)).
enoughTime(deadline) == deadline.ok /\ deadline.left > 2 * Second

\* Mutant: badServers is left as it is.
addNothing(b, address) == b

\* Mutant: the address is written without a look for it in the list.
addDuplicate(b, address) ==
  [list |-> [b.list EXCEPT ![b.next] = address],
   next |-> (b.next + 1) % RingLen]

\* addBadServer under the lock: list and next after it.
addBadServer(b, address) ==
  IF \E i \in DOMAIN b.list : b.list[i] = address THEN b
  ELSE [list |-> [b.list EXCEPT ![b.next] = address],
        next |-> (b.next + 1) % RingLen]

badServers == [list |-> opp.list, next |-> opp.next]

\* net.JoinHostPort(host, "853").
tlsAddr(address) == [host |-> address.host, port |-> "853"]

\* The call of goroutine c returns the result given.
OppReturn(c, call, result) ==
  [opp EXCEPT !.g[c] = IdleCall, !.ret = [call |-> call, result |-> result]]

\* A goroutine calls the dialer: it splits the address and, for port 53,
\* looks the address up in badServers and looks at the deadline; it then
\* begins the dial to port 853 or the dial it was asked for.
OppCall(c) ==
  \E args \in OppArgs, deadline \in OppDeadlines :
    /\ opp.g[c].pc = "idle"
    /\ opp.calls < MaxCalls
    /\ LET network == args.network
           address == args.address
           try  == /\ address.port \in {"53", "domain"}
                   /\ notBadServer(opp.list, address)
                   /\ enoughTime(deadline)
           to   == IF try THEN [network |-> "tcp", address |-> tlsAddr(address)]
                   ELSE [network |-> network, address |-> address]
       IN opp' = [opp EXCEPT
                    !.calls = @ + 1,
                    !.ret = NewOpp.ret,
                    !.g[c] = [pc |-> IF try THEN "tls" ELSE "plain",
                              network |-> network, address |-> address,
                              deadline |-> deadline,
                              bad |-> \E i \in DOMAIN opp.list : opp.list[i] = address,
                              dials |-> <<to>>, added |-> FALSE,
                              listed |-> FALSE]]
    /\ UNCHANGED <<cacheVars, cachingVars, connVars, frame, dial, uri, neg, callVars>>

\* The dial to port 853 returns: with a connection, the call returns a TLS
\* client on it; without, it adds the address to badServers and begins the
\* dial it was asked for.
OppDialTLS(c) ==
  \E ok \in BOOLEAN :
    LET call == opp.g[c]
    IN /\ call.pc = "tls"
       /\ IF ok
          THEN opp' = OppReturn(c, call, [kind |-> "tls", network |-> "tcp",
                                          address |-> tlsAddr(call.address)])
          ELSE LET b == addBadServer(badServers, call.address)
               IN opp' = [opp EXCEPT
                            !.list = b.list, !.next = b.next,
                            !.adds = IF b.list # opp.list
                                     THEN Append(@, call.address) ELSE @,
                            !.ret = NewOpp.ret,
                            !.g[c] = [call EXCEPT
                                        !.pc = "plain",
                                        !.added = b # badServers,
                                        !.listed = ~notBadServer(b.list, call.address),
                                        !.dials = Append(@, [network |-> call.network,
                                                             address |-> call.address])]]
       /\ UNCHANGED <<cacheVars, cachingVars, connVars, frame, dial, uri, neg, callVars>>

\* The dial the call was asked for returns, and the call returns what it
\* has returned: a connection or an error.
OppDialPlain(c) ==
  \E ok \in BOOLEAN :
    LET call == opp.g[c]
    IN /\ call.pc = "plain"
       /\ opp' = OppReturn(c, call, [kind |-> IF ok THEN "conn" ELSE "error",
                                     network |-> call.network,
                                     address |-> call.address])
       /\ UNCHANGED <<cacheVars, cachingVars, connVars, frame, dial, uri, neg, callVars>>

NextOpp == \E c \in OppCallers : OppCall(c) \/ OppDialTLS(c) \/ OppDialPlain(c)

InitOpp == CoreInit /\ CallQuiet /\ FrameQuiet /\ DialQuiet /\ UriQuiet /\ NegQuiet /\ OppQuiet

SpecOpp == InitOpp /\ [][NextOpp]_vars

\* ------------------------------------------------------------- negative caching
\* The header of a response to a query with RD set: QR and RD, RA and the
\* response code, one question, an answers and ns authority records.
NegHeader(id, rcode, an, ns) ==
  <<id[1], id[2], 129, 128 + rcode, 0, 1, 0, an, 0, ns, 0, 0>>

\* An SOA record in the layout of Answer: a pointer to the question's name,
\* type SOA, class IN, the TTL, RDLENGTH 1 and one byte of data.
Authority(ttl) == <<192, 12, 0, 6, 0, 1>> \o ttl \o <<0, 1, 9>>

\* A response without answers: the response code given and the authority
\* records of the TTLs given (at most one).
NegReply(id, rcode, c, ttls) ==
  NegHeader(id, rcode, 0, Len(ttls)) \o Question(c)
    \o (IF ttls = <<>> THEN <<>> ELSE Authority(ttls[1]))

\* A response with one answer.
PosReply(id, c, ttl) == NegHeader(id, 0, 1, 0) \o Question(c) \o Answer(ttl)

NegIDs == {ID1, ID2}

NegNames == {97, 98}

NegReqs == {Query(id, 1, c) : id \in NegIDs, c \in NegNames}

\* The responses the back-end gives for a name, all under one ID: name
\* errors and empty answers with an SOA record of TTL 0 or 1 or with no
\* record, and an answer.
NegRess(c) ==
  {NegReply(ID1, rcode, c, ttls) : rcode \in {0, 3}, ttls \in {<<>>, <<T0>>, <<T1>>}}
    \cup {PosReply(ID1, c, T1)}

\* The response code is NXDOMAIN.
nameError(res) == res[4] % 16 = 3

\* The response has no answer record.
noAnswer(res) == res[7] * 256 + res[8] = 0

\* Mutant: no response counts as negative.
negativeNone(res) == FALSE

\* A negative response: a name error or a response without answers.
negative(res) == nameError(res) \/ noAnswer(res)

\* put of a cache built with NegativeCache(on): without the option's leave
\* a negative response is not stored.
putOption(on, ents, t, req, res, order) ==
  IF ~on /\ Len(res) >= 12 /\ negative(res) THEN ents
  ELSE put(ents, t, req, res, order)

\* One call of put for a request and a response of the back-end.
NegPut ==
  \E req \in NegReqs : \E res \in NegRess(req[14]) : \E order \in ProbeOrders(entries) :
    LET new == putOption(neg.on, entries, now, req, res, order)
    IN /\ entries' = new
       /\ src' = [k \in DOMAIN new |->
                    IF new = entries THEN src[k]
                    ELSE IF k = Drop(req, 2) THEN [res |-> res, at |-> now]
                    ELSE src[k]]
       /\ neg' = [neg EXCEPT !.last = [req |-> req, res |-> res,
                                      changed |-> new # entries]]
       /\ got' = NoGet
       /\ now' = now
       /\ UNCHANGED <<cachingVars, connVars, frame, dial, uri, opp, callVars>>

\* One call of get for a request.
NegGet ==
  \E req \in NegReqs :
    /\ got' = [req |-> req, res |-> get(entries, now, req)]
    /\ neg' = [neg EXCEPT !.last = NoPut]
    /\ UNCHANGED <<entries, now, src>>
    /\ UNCHANGED <<cachingVars, connVars, frame, dial, uri, opp, callVars>>

\* Time passes.
NegTick ==
  /\ now < MaxClock
  /\ now' = now + 1
  /\ got' = NoGet
  /\ neg' = [neg EXCEPT !.last = NoPut]
  /\ UNCHANGED <<entries, src>>
  /\ UNCHANGED <<cachingVars, connVars, frame, dial, uri, opp, callVars>>

NextNeg == NegPut \/ NegGet \/ NegTick

\* The state after construction, with NegativeCache(false) or without it.
InitNeg ==
  /\ CoreInit /\ CallQuiet /\ FrameQuiet /\ DialQuiet /\ UriQuiet /\ OppQuiet
  /\ \E on \in BOOLEAN : neg = NewNeg(on)

SpecNeg == InitNeg /\ [][NextNeg]_vars

\* ------------------------------------------------------------- calls of the codec
\* The length of a buffer given to getNameLen at most.
MaxName == 3

\* The bytes of those buffers: the terminator, label lengths, the ends of
\* the reserved range, a pointer and a letter.
NameBytes == {0, 1, 2, 64, 191, 192, 97}

RECURSIVE NameBufs(_)
\* The buffers of the length given at most.
NameBufs(n) ==
  IF n = 0 THEN {<<>>}
  ELSE LET S == NameBufs(n - 1)
       IN S \cup {Append(b, c) : b \in {u \in S : Len(u) = n - 1}, c \in NameBytes}

TMax == <<255, 255, 255, 255>>

\* The TTL fields of the records of the well-formed responses.
TTLLists ==
  {<<T0>>, <<T1>>, <<T2, T1>>, <<T1, TBig>>, <<TBig>>, <<TMax>>, <<TBig, TMax>>}

\* The responses given to getTTL, each with how it was built: well formed
\* with records ("ok"), without any record, cut short, with an RDLENGTH
\* beyond the end, and with a reserved label in a name.
TTLInputs ==
  LET full == {Reply(ID1, 128, 97, ttls) : ttls \in TTLLists}
                \cup {NegReply(ID1, 3, 97, <<T1>>)}
  IN {[arg |-> m, why |-> "ok"] : m \in full}
       \cup {[arg |-> m, why |-> "norecords"] :
               m \in {Reply(ID1, 128, 97, <<>>), NegReply(ID1, 3, 97, <<>>)}}
       \cup {[arg |-> Take(m, k), why |-> "truncated"] :
               m \in full, k \in {12, 15, 19, 25, 31}}
       \cup {[arg |-> Header(ID1, 128, 1, 1) \o Question(97)
                        \o <<192, 12, 0, 1, 0, 1>> \o T1 \o <<0, 2, 9>>,
              why |-> "rdlength"]}
       \cup {[arg |-> Header(ID1, 128, 1, 1) \o <<64, 97, 0, 0, 1, 0, 1>> \o Answer(T1),
              why |-> "badname"],
             [arg |-> Header(ID1, 128, 1, 1) \o Question(97)
                        \o <<128, 12, 0, 1, 0, 1>> \o T1 \o <<0, 1, 9>>,
              why |-> "badname"]}

\* A message with the third and fourth header bytes given and one question.
Flagged(id, b2, b3) == <<id[1], id[2], b2, b3, 0, 1, 0, 0, 0, 0, 0, 0>> \o Question(97)

\* The pairs given to the checks of put: requests and responses over the
\* values of the QR bit, the opcode, the TC bit and the response code, with
\* equal and with different IDs, and a message shorter than a header.
PairInputs ==
  LET reqs == {Flagged(ID1, b2, 0) : b2 \in {0, 1, 2, 8, 127, 128}}
      ress == {Flagged(id, b2, b3) : id \in {ID1, ID2}, b2 \in {127, 128, 129, 130, 136},
                                     b3 \in {0, 2, 3, 131}}
  IN (reqs \X ress) \cup {<<ShortMsg, Flagged(ID1, 128, 0)>>,
                          <<Flagged(ID1, 0, 0), ShortMsg>>}

\* One call of getNameLen.
CallGetNameLen ==
  /\ fn.kind = "name" /\ ~fn.done
  /\ fn' = [fn EXCEPT !.done = TRUE, !.out = getNameLen(fn.arg)]
  /\ UNCHANGED <<cacheVars, cachingVars, connVars, frame, dial, uri, opp, neg, ev, lk>>

\* One call of getTTL.
CallGetTTL ==
  /\ fn.kind = "ttl" /\ ~fn.done
  /\ fn' = [fn EXCEPT !.done = TRUE, !.out = getTTL(fn.arg)]
  /\ UNCHANGED <<cacheVars, cachingVars, connVars, frame, dial, uri, opp, neg, ev, lk>>

\* The first checks of put on a pair: whether put ignores it.
CallPutInvalid ==
  /\ fn.kind = "pair" /\ ~fn.done
  /\ fn' = [fn EXCEPT !.done = TRUE, !.out = putInvalid(fn.arg[1], fn.arg[2])]
  /\ UNCHANGED <<cacheVars, cachingVars, connVars, frame, dial, uri, opp, neg, ev, lk>>

NextCodec == CallGetNameLen \/ CallGetTTL \/ CallPutInvalid

\* The state before one call: a buffer, a response or a pair of the sets
\* above.
InitCodec ==
  /\ CoreInit /\ EvQuiet /\ LockQuiet
  /\ FrameQuiet /\ DialQuiet /\ UriQuiet /\ OppQuiet /\ NegQuiet
  /\ \/ \E b \in NameBufs(MaxName) : fn = NewFn("name", b, "")
     \/ \E t \in TTLInputs : fn = NewFn("ttl", t.arg, t.why)
     \/ \E p \in PairInputs : fn = NewFn("pair", p, "")

SpecCodec == InitCodec /\ [][NextCodec]_vars

\* ------------------------------------------------------------- eviction
\* The puts of the eviction runs: three names, each with a response of one
\* TTL, and pairs that put ignores (a response whose third byte is 0x7f,
\* another ID, a TTL of 0).
EvictPairs ==
  {<<Query(ID1, 0, 97), Reply(ID1, 128, 97, <<T1>>)>>,
   <<Query(ID1, 0, 98), Reply(ID1, 128, 98, <<T2>>)>>,
   <<Query(ID1, 0, 99), Reply(ID1, 128, 99, <<T1>>)>>,
   <<Query(ID1, 0, 97), Reply(ID1, 127, 97, <<T1>>)>>,
   <<Query(ID1, 0, 97), Reply(ID2, 128, 97, <<T1>>)>>,
   <<Query(ID1, 0, 97), Reply(ID1, 128, 97, <<T0>>)>>}

\* The orders in which "for k, e := range c.entries" can yield the whole
\* table.
RangeOrders(ents) ==
  LET n == Cardinality(DOMAIN ents)
  IN {s \in [1..n -> DOMAIN ents] : \A i, j \in 1..n : i # j => s[i] # s[j]}

\* One call of cache.put, with the table before the call, the order of the
\* map iteration and the table the eviction loop left (before the store) on
\* record.
EvictPut ==
  \E p \in EvictPairs : \E order \in RangeOrders(entries) :
    LET req  == p[1]
        res  == p[2]
        back == putInvalid(req, res) \/ WLeq(getTTL(res), W(0))
        new  == put(entries, now, req, res, order)
    IN /\ entries' = new
       /\ src' = [k \in DOMAIN new |->
                    IF new = entries THEN src[k]
                    ELSE IF k = Drop(req, 2) THEN [res |-> res, at |-> now]
                    ELSE src[k]]
       /\ ev' = [acted |-> TRUE, req |-> req, res |-> res, before |-> entries,
                 order |-> IF back THEN <<>> ELSE order,
                 mid |-> IF back THEN entries ELSE evict(entries, order, 0, 0, now)]
       /\ got' = NoGet
       /\ now' = now
       /\ UNCHANGED <<cachingVars, connVars, frame, dial, uri, opp, neg, fn, lk>>

\* Time passes; the record of the last put is dropped.
EvictTick ==
  /\ now < MaxClock
  /\ now' = now + 1
  /\ got' = NoGet
  /\ ev' = NoEv
  /\ UNCHANGED <<entries, src>>
  /\ UNCHANGED <<cachingVars, connVars, frame, dial, uri, opp, neg, fn, lk>>

NextEvict == EvictPut \/ EvictTick

SpecEvict == Init /\ [][NextEvict]_vars

\* ------------------------------------------------------------- claims
GotKey == Drop(got.req, 2)

GotHit == got.res # <<>>

\* C2: every non-empty result of cache.get(req) starts with the request's two
\* ID bytes, and continues with bytes 2.. of the response most recently put
\* under the key req[2..], whatever ID that put used.
C2_GetReappliesID ==
  GotHit =>
    /\ GotKey \in DOMAIN src
    /\ Take(got.res, 2) = Take(got.req, 2)
    /\ Drop(got.res, 2) = Drop(src[GotKey].res, 2)

\* C2 witness: a hit for a request whose ID differs from the ID of the put.
C2_Witness ==
  /\ GotHit
  /\ GotKey \in DOMAIN src
  /\ Take(got.req, 2) # Take(src[GotKey].res, 2)

\* C3: the cache never returns a response whose QR bit (byte 2, bit 7) is 0
\* and never accepts a request whose QR bit is 1: no stored key and no looked
\* up request with a hit has QR=1, no stored value and no result has QR=0.
C3_QRMatching ==
  /\ \A k \in DOMAIN entries : k[1] < 128 /\ entries[k].value[1] >= 128
  /\ GotHit => got.req[3] < 128 /\ got.res[3] >= 128

\* C4: cache.get never returns an entry whose expiry instant is at or before
\* the current time.
C4_NoExpiredHit ==
  GotHit => GotKey \in DOMAIN entries /\ WLess(W(now), entries[GotKey].deadline)

\* C4 witness: a get reported absent an entry that is still stored, its
\* expiry instant at or before the current time.
C4_Witness ==
  /\ got.req # <<>>
  /\ ~GotHit
  /\ GotKey \in DOMAIN entries
  /\ WLeq(entries[GotKey].deadline, W(now))

\* C5: after any sequence of puts the cache stores at most N_MAX + 1 entries.
C5_SizeBound == Cardinality(DOMAIN entries) <= N_MAX + 1

\* C5 witness: the table is full, every entry unexpired, puts for every name
\* having been possible.
C5_Witness ==
  /\ Cardinality(DOMAIN entries) = N_MAX
  /\ \A k \in DOMAIN entries : WLess(W(now), entries[k].deadline)
  /\ now > 0

\* C6: every entry inserted by put has a lifetime (expiry instant minus
\* insertion time) greater than 0 and not greater than the minimum TTL, in
\* seconds, among the records of the response it was built from.
C6_LifetimeWithinMinTTL ==
  \A k \in DOMAIN entries :
    LET ttls == RecordTTLs(src[k].res)
        life == WSub(entries[k].deadline, W(src[k].at))
    IN /\ WLess(W(0), life)
       /\ Len(ttls) > 0
       /\ \A i \in 1..Len(ttls) : WLeq(life, WMul(TTLValue(ttls[i]), Second))

\* C1: once a Read on a cache miss has returned a valid response for a
\* query, a later Read (on any connection of the dialer) of a query of the
\* same bytes after the ID, started before the TTL ends and with the entry
\* not evicted, returns the cached response under the Read's own ID and does
\* not dial.
C1_ServedFromCache ==
  /\ \A c \in CConns : cc[c].due = <<>>
  /\ ret.due # <<>> => ~ret.dialed /\ ret.err = "nil" /\ ret.data = ret.due

\* C7: within one adapter connection the responses are delivered by Read in
\* the order in which their queries were written, also when several Reads run
\* at once: on a dnsConn the bytes delivered and those still in the output
\* buffer are the framed responses in the order of the queries, on a dohConn
\* the IDs of the responses delivered ascend as those of the queries written.
C7_WriteOrder ==
  IF conn.kind = "dns"
  THEN Flat(hist.delivered) \o conn.obuf = Stream(hist.done, 1)
  ELSE \A i, j \in DOMAIN hist.delivered :
         i < j => hist.delivered[i][1] < hist.delivered[j][1]

\* C8: after Close has returned, every Read that starts returns end-of-stream
\* (io.EOF, or the io.ErrUnexpectedEOF a dnsConn answers an empty input
\* buffer with) and never reaches the round-trip.
C8_ClosedTerminal ==
  /\ \A r \in Readers : rd[r].pc = "trip" => ~rd[r].afterClose
  /\ out.afterClose => out.err \in {"EOF", "ErrUnexpectedEOF"}

\* C9: when Close is called on a dnsConn while the round-trip of a Read is in
\* flight, the context handed to that round-trip is cancelled.
C9_CloseCancelsDns ==
  \A r \in Readers :
    conn.kind = "dns" /\ rd[r].pc = "trip" /\ rd[r].closedDuring
      => rd[r].ctx = "cancelled"

\* C10: when the response is longer than the buffer, Read reports a
\* short-buffer error, returns 0 bytes and delivers no part of the response;
\* here for the HTTPS back-end, read by dohConn.Read, the body read without
\* an I/O error.
C10_ShortBufferNoData ==
  out.resLen > out.blen /\ out.err # "error" =>
    out.err = "ErrShortBuffer" /\ out.n = 0 /\ out.data = <<>>

\* The message a readMessage call has just returned and the message that was
\* written as the one it answers.
FrameGot == frame.res.err = "nil"

FrameWritten == Msg(frame.sent[frame.nread])

\* C11 (as amended): a message of 12 to 65535 bytes written by writeMessage
\* to a stream is returned by readMessage exactly; written to a packet
\* connection it is returned exactly when it is at most PacketBuf bytes
\* long, and cut to its first PacketBuf bytes when it is longer.
C11_FramingRoundTrip ==
  FrameGot =>
    frame.res.msg = IF frame.udp
                    THEN Take(FrameWritten, Min(PacketBuf, Len(FrameWritten)))
                    ELSE FrameWritten

\* C11 witness: readMessage has returned the second message of a stream, of
\* the greatest length, after a first one whose length has a low byte of 0.
C11_Witness ==
  /\ FrameGot /\ ~frame.udp
  /\ frame.nread = 2
  /\ frame.sent = <<256, 65535>>
  /\ Len(frame.res.msg) = 65535

\* C11 (as claimed): every message of 12 to 65535 bytes written by
\* writeMessage is returned by readMessage exactly, on a stream and on a
\* packet connection.
C11_RoundTripExact == FrameGot => frame.res.msg = FrameWritten

\* C12 (as amended): under K failed dials, concurrent or not, to a list of
\* N endpoints, the index moves forward by at most K positions in all, each
\* move being one position forward modulo N, and it never moves backward:
\* it is always the sum of its moves modulo N.
C12_IndexAdvance ==
  /\ dial.moved <= dial.failed
  /\ dial.index = dial.moved % nAddrs

\* C12 witness: three dials that began together have all failed on a list of
\* three endpoints, and the index has moved one position.
C12_Witness ==
  /\ dial.batch /\ nAddrs = 3
  /\ dial.failed = 3 /\ Len(dial.log) = 3
  /\ dial.index = 1

\* C12 (as claimed): under K concurrent failed dials to a list of N
\* endpoints the index moves forward by at most K mod N positions.
C12_AdvanceKModN ==
  dial.batch => dial.moved <= dial.failed % nAddrs

\* C13: in a sequential run a dial that follows a failed dial to
\* opts.addrs[i] goes to opts.addrs[(i + 1) mod len]; with the list [A, B],
\* A refusing and B accepting, the first dial goes to A and fails and the
\* second goes to B and succeeds.
C13_Failover ==
  dial.seq =>
    /\ \A k \in 1..(Len(dial.log) - 1) :
         ~dial.log[k].ok => dial.log[k + 1].s = (dial.log[k].s + 1) % nAddrs
    /\ \A d \in Dialers :
         (dial.pc[d] = "dialing" /\ dial.log # <<>> /\ ~dial.log[Len(dial.log)].ok)
           => dial.s[d] = (dial.log[Len(dial.log)].s + 1) % nAddrs
    /\ (dial.ep = <<"refusing", "accepting">> /\ Len(dial.log) >= 2)
         => /\ dial.log[1] = [s |-> 0, ok |-> FALSE]
            /\ dial.log[2] = [s |-> 1, ok |-> TRUE]

\* C13 witness: with the list [A, B], A refusing and B accepting, two dials
\* one after the other have returned, the second with a connection to B.
C13_Witness ==
  /\ dial.seq /\ dial.ep = <<"refusing", "accepting">>
  /\ Len(dial.log) = 2
  /\ dial.log[2] = [s |-> 1, ok |-> TRUE]

\* The braces of a template, in order.
Braces(t) == SelectSeq(t, LAMBDA c : c \in {"{", "}"})

\* A template's braces are balanced and not nested: they are an opening
\* and a closing brace in turn, ending with a closing one.
Balanced(t) ==
  LET b == Braces(t)
  IN /\ Len(b) % 2 = 0
     /\ \A i \in 1..Len(b) : b[i] = IF i % 2 = 1 THEN "{" ELSE "}"

\* The number of bytes c among the first i bytes of t.
CountTo(t, c, i) == Cardinality({j \in 1..i : t[j] = c})

RECURSIVE StripTo(_, _)
\* The first i bytes of a balanced template without its expansions: the
\* bytes that are not braces and have as many opening as closing braces
\* before them.
StripTo(t, i) ==
  IF i = 0 THEN <<>>
  ELSE IF t[i] \notin {"{", "}"} /\ CountTo(t, "{", i) = CountTo(t, "}", i)
       THEN Append(StripTo(t, i - 1), t[i])
       ELSE StripTo(t, i - 1)

\* C14: parseURITemplate returns an error for every template whose braces
\* are unbalanced: an opening brace inside an expansion, a closing brace
\* outside one, or an opening brace never closed.
C14_UnbalancedIsError ==
  (uri.stage # "new" /\ ~Balanced(uri.tpl)) => uri.err

\* C15: for a template with balanced, non-nested braces parseURITemplate
\* returns, without error, the template without its expansions, every other
\* byte kept in order; a template without braces is returned unchanged, and
\* parsing the result again returns the result.
C15_StripsExpansions ==
  (uri.stage # "new" /\ Balanced(uri.tpl)) =>
    /\ ~uri.err
    /\ uri.out = StripTo(uri.tpl, Len(uri.tpl))
    /\ Braces(uri.tpl) = <<>> => uri.out = uri.tpl
    /\ uri.stage = "reparsed" => ~uri.err2 /\ uri.out2 = uri.out

\* C15 witness: a template with an expansion between two other bytes has
\* been parsed, and the result parsed again.
C15_Witness ==
  /\ uri.stage = "reparsed"
  /\ uri.tpl = <<"h", "{", "?", "}", "h">>
  /\ uri.out = <<"h", "h">>

\* The call that has just returned, and the dial it was asked for.
Ret == opp.ret.call

Asked(call) == [network |-> call.network, address |-> call.address]

OppReturned == opp.ret.result.kind # "none"

\* C16: a call whose address, on port 53, is in badServers when the call
\* looks it up never dials port 853: it makes the dial it was asked for,
\* once, and returns what that dial returns.
C16_BadServerSkipsTLS ==
  /\ \A c \in OppCallers :
       (opp.g[c].pc # "idle" /\ opp.g[c].bad) =>
         opp.g[c].pc = "plain" /\ opp.g[c].dials = <<Asked(opp.g[c])>>
  /\ (OppReturned /\ Ret.bad) =>
       /\ Ret.dials = <<Asked(Ret)>>
       /\ opp.ret.result.kind \in {"conn", "error"}
       /\ Asked(opp.ret.result) = Asked(Ret)

\* C16 witness: a call for an address that an earlier call had added to
\* badServers has returned a connection.
C16_Witness ==
  /\ OppReturned /\ Ret.bad
  /\ Ret.address.port = "53"
  /\ opp.ret.result.kind = "conn"

\* A call's deadline is less than two seconds away.
Short(call) == call.deadline.ok /\ call.deadline.left < 2 * Second

\* C17: a call whose deadline is less than two seconds away never dials
\* port 853 and never writes to badServers: it makes the dial it was asked
\* for directly.
C17_ShortDeadlineSkipsTLS ==
  /\ \A c \in OppCallers :
       (opp.g[c].pc # "idle" /\ Short(opp.g[c])) =>
         /\ opp.g[c].pc = "plain"
         /\ opp.g[c].dials = <<Asked(opp.g[c])>>
         /\ ~opp.g[c].added
  /\ (OppReturned /\ Short(Ret)) =>
       /\ Ret.dials = <<Asked(Ret)>>
       /\ ~Ret.added
       /\ Asked(opp.ret.result) = Asked(Ret)

\* C17 witness: a call for a server on port 53 that is not in badServers,
\* with a deadline less than two seconds away, has returned.
C17_Witness ==
  /\ OppReturned /\ Short(Ret) /\ ~Ret.bad
  /\ Ret.address.port = "53"

\* A call has dialled port 853 and gone on after it: the dial has failed.
FailedTLS(call) == Len(call.dials) = 2

\* C18: when a call's dial to port 853 fails, the address the call was
\* given is in badServers when the call goes on, and the call then makes
\* the dial it was asked for, with the network it was given, and returns
\* what that dial returns: the failure of the dial to port 853 is not
\* returned.
C18_FailedTLSFallsBack ==
  /\ \A c \in OppCallers :
       (opp.g[c].pc = "plain" /\ FailedTLS(opp.g[c])) =>
         /\ opp.g[c].listed
         /\ opp.g[c].dials[1] = [network |-> "tcp", address |-> tlsAddr(opp.g[c].address)]
         /\ opp.g[c].dials[2] = Asked(opp.g[c])
  /\ (OppReturned /\ FailedTLS(Ret)) =>
       /\ Ret.listed
       /\ Ret.dials[2] = Asked(Ret)
       /\ opp.ret.result.kind \in {"conn", "error"}
       /\ Asked(opp.ret.result) = Asked(Ret)

\* C18 witness: a call over udp whose dial to port 853 has failed has
\* returned the connection of the dial it was asked for, and its address is
\* in badServers.
C18_Witness ==
  /\ OppReturned /\ FailedTLS(Ret)
  /\ Ret.network = "udp" /\ Ret.added
  /\ opp.ret.result.kind = "conn"
  /\ ~notBadServer(opp.list, Ret.address)

\* A response with the response code NXDOMAIN or with an ANCOUNT of 0.
NegativeResponse(res) == res[4] \in {3, 131} \/ (res[7] = 0 /\ res[8] = 0)

\* C19: in a cache built with NegativeCache(false) a put of a name error or
\* of a response without answers changes nothing, no stored entry is such a
\* response, and no get returns one: the Read of a repeated query finds
\* nothing of it in the cache and goes to the back-end.
C19_NegativeNotCached ==
  ~neg.on =>
    /\ (neg.last # NoPut /\ NegativeResponse(neg.last.res)) => ~neg.last.changed
    /\ \A k \in DOMAIN entries : ~NegativeResponse(<<0, 0>> \o entries[k].value)
    /\ GotHit => ~NegativeResponse(got.res)

\* C19 witness: with NegativeCache(false), a name error with a record of
\* positive TTL has been put for the query it answers, and the cache is
\* empty.
C19_Witness ==
  /\ ~neg.on
  /\ neg.last.req = Query(ID1, 1, 97)
  /\ neg.last.res = NegReply(ID1, 3, 97, <<T1>>)
  /\ entries = NoEntries

\* The TTL of the one record of a response built by NegReply, in ticks.
NegTTL(res) == WMul(TTLValue(SubSeq(res, 26, 29)), Second)

\* A name error that answers the request, with one authority record of
\* positive TTL.
NameErrorFor(req, res) ==
  /\ res[4] = 131 /\ res[10] = 1
  /\ Take(res, 2) = Take(req, 2) /\ res[14] = req[14]
  /\ WLess(W(0), NegTTL(res))

\* C20: with the default options a put of a name error with an authority
\* record of positive TTL, for a query it answers, stores the response
\* under the query's key until the TTL ends, and a get of the same query
\* (under any ID) before that instant, the entry not evicted meanwhile,
\* returns that response under the get's ID.
C20_NameErrorCached ==
  neg.on =>
    /\ (neg.last # NoPut /\ NameErrorFor(neg.last.req, neg.last.res)) =>
         /\ Drop(neg.last.req, 2) \in DOMAIN entries
         /\ entries[Drop(neg.last.req, 2)] =
              [deadline |-> WAdd(W(now), NegTTL(neg.last.res)),
               value |-> Drop(neg.last.res, 2)]
    /\ (/\ got.req # <<>> /\ GotKey \in DOMAIN src
        /\ src[GotKey].res[4] = 131 /\ src[GotKey].res[10] = 1
        /\ WLess(W(now), WAdd(W(src[GotKey].at), NegTTL(src[GotKey].res))))
         => got.res = Take(got.req, 2) \o Drop(src[GotKey].res, 2)

\* C20 witness: a get under another ID, a tick after the put and before the
\* TTL ends, has returned the name error that was put.
C20_Witness ==
  /\ neg.on /\ now = 1
  /\ got.req = Query(ID2, 1, 97)
  /\ GotKey \in DOMAIN src /\ src[GotKey].at = 0
  /\ src[GotKey].res = NegReply(ID1, 3, 97, <<T1>>)
  /\ got.res = NegReply(ID2, 3, 97, <<T1>>)

\* Bits of a header byte.
QR(b) == b \div 128

Opcode(b) == (b \div 8) % 16

TC(b) == (b \div 2) % 2

\* C21: every pair the checks of put accept has both messages of at least
\* 12 bytes and of one ID, the request a query and the response a response,
\* both of opcode 0 and without the TC bit, and the response code 0 or 3.
C21_AcceptedPairs ==
  (fn.kind = "pair" /\ fn.done /\ ~fn.out) =>
    LET req == fn.arg[1]
        res == fn.arg[2]
    IN /\ Len(req) >= 12 /\ Len(res) >= 12
       /\ Take(req, 2) = Take(res, 2)
       /\ QR(req[3]) = 0 /\ QR(res[3]) = 1
       /\ Opcode(req[3]) = 0 /\ Opcode(res[3]) = 0
       /\ TC(req[3]) = 0 /\ TC(res[3]) = 0
       /\ res[4] % 16 \in {0, 3}

\* C23: getTTL returns a value of 0 or less for a response without any
\* record, for one that ends before the questions and records it declares
\* (an RDLENGTH beyond the end included) and for one with a name that does
\* not parse.
C23_UncacheableTTL ==
  (fn.kind = "ttl" /\ fn.done /\ fn.why # "ok") => WLeq(fn.out, W(0))

\* The TTL fields of a response built by Reply or NegReply, wide.
FieldTTLs(res) ==
  [i \in 1..(res[8] + res[10]) |->
     TTLValue(SubSeq(res, 19 + 13 * (i - 1) + 7, 19 + 13 * (i - 1) + 10))]

\* C24: for a well-formed response with at least one record getTTL returns
\* the least of the TTL fields of its records, in seconds, whatever their
\* values from 0 to 2^32 - 1.
C24_MinimumTTL ==
  (fn.kind = "ttl" /\ fn.done /\ fn.why = "ok") =>
    LET ttls == FieldTTLs(fn.arg)
    IN \E i \in 1..Len(ttls) :
         /\ \A j \in 1..Len(ttls) : WLeq(ttls[i], ttls[j])
         /\ fn.out = WMul(ttls[i], Second)

RECURSIVE LabelStarts(_, _, _)
\* The offsets at which the walk of the labels of a buffer stands, from
\* those of S in n steps at most.
LabelStarts(b, S, n) ==
  IF n = 0 THEN S
  ELSE LabelStarts(b, S \cup {p + b[p + 1] + 1 : p \in {q \in S : q < Len(b) /\ b[q + 1] \in 1..63}},
                   n - 1)

\* The offset at which the walk of the labels ends: the first that holds no
\* label.
WalkEnd(b) ==
  CHOOSE p \in LabelStarts(b, {0}, Len(b)) : ~(p < Len(b) /\ b[p + 1] \in 1..63)

\* The walk met a reserved byte.
Reserved(b) == WalkEnd(b) < Len(b) /\ b[WalkEnd(b) + 1] \in 64..191

\* The walk ran past the end of the buffer: no terminator, or a label or a
\* pointer that extends beyond it.
Overrun(b) ==
  \/ WalkEnd(b) >= Len(b)
  \/ b[WalkEnd(b) + 1] >= 192 /\ WalkEnd(b) + 2 > Len(b)

\* The bytes a name takes that ends within the buffer.
Consumed(b) == IF b[WalkEnd(b) + 1] = 0 THEN WalkEnd(b) + 1 ELSE WalkEnd(b) + 2

\* C26 (as stated): getNameLen returns the bytes consumed, the terminator or
\* the pointer included, and -1 both for a reserved byte and for a walk
\* past the end of the buffer.
C26_SentinelOnOverrun ==
  (fn.kind = "name" /\ fn.done) =>
    IF Reserved(fn.arg) \/ Overrun(fn.arg) THEN fn.out = -1
    ELSE fn.out = Consumed(fn.arg)

\* C26 (amended): getNameLen returns the bytes consumed, the terminator or
\* the 2-byte pointer included, and -1 for a reserved byte; for a walk past
\* the end of the buffer it returns the offset reached, never -1: the
\* length of the buffer at least, and more for a label or a pointer that
\* extends beyond it.
C26_NameLen ==
  (fn.kind = "name" /\ fn.done) =>
    LET b == fn.arg
        e == WalkEnd(b)
    IN IF Reserved(b) THEN fn.out = -1
       ELSE IF e >= Len(b) THEN fn.out = e /\ fn.out >= Len(b)
       ELSE fn.out = Consumed(b) /\ (Overrun(b) => fn.out > Len(b))

C26_Witness ==
  /\ fn.kind = "name" /\ fn.done
  /\ fn.arg = <<2, 97>> /\ Overrun(fn.arg) /\ fn.out = 3

\* The put on record was to be rejected: a message shorter than a header, a
\* request with the QR bit, a response without it, two IDs, or a TTL of 0
\* or less.
ToReject ==
  \/ Len(ev.req) < 12 \/ Len(ev.res) < 12
  \/ QR(ev.req[3]) = 1 \/ QR(ev.res[3]) = 0
  \/ Take(ev.req, 2) # Take(ev.res, 2)
  \/ WLeq(getTTL(ev.res), W(0))

\* C22: a put that is rejected (a message shorter than 12 bytes, a request
\* that is not a query, a response that is not a response, an ID mismatch
\* or a TTL of 0 or less) leaves the table exactly as it was.
C22_RejectedPutNoChange ==
  (ev.acted /\ ToReject) => entries = ev.before

\* The entries the eviction loop of the put on record deleted.
Evicted == (DOMAIN ev.before) \ (DOMAIN ev.mid)

\* An entry of the table before the put on record was expired at the put.
WasExpired(k) == WLeq(ev.before[k].deadline, W(now))

\* The entries the loop inspected: the first Probes of the iteration.
Inspected == {ev.order[i] : i \in 1..Min(Probes, Len(ev.order))}

C27_BurstMovesOnce ==
  dial.batch =>
    /\ \A k \in 1..Len(dial.log) : dial.log[k].s = 0
    /\ dial.moved <= 1
    /\ dial.failed >= 1 => dial.index = 1 % nAddrs
    /\ (dial.failed >= 1 /\ nAddrs > 1) => dial.moved = 1

\* C27 witness: three dials began together on a list of two endpoints, all
\* three have failed, and the index has moved once.
C27_Witness ==
  /\ dial.batch /\ nAddrs = 2
  /\ dial.failed = 3 /\ Len(dial.log) = 3
  /\ dial.index = 1 /\ dial.moved = 1

\* C28: the index is always one of 0 .. len - 1, and the return of one dial
\* leaves it as it is or moves it one position forward modulo len.
C28_IndexInRange ==
  /\ [](dial.index \in 0..(nAddrs - 1))
  /\ [][dial'.index \in {dial.index, (dial.index + 1) % nAddrs}]_vars

\* C28 witness: a failed dial has moved the index from the last position of
\* a list of three to the first.
C28_Witness ==
  /\ nAddrs = 3 /\ dial.moved = 3 /\ dial.index = 0
  /\ dial.log[Len(dial.log)] = [s |-> 2, ok |-> FALSE]

\* In this step the dial of a goroutine that had loaded the index as it is
\* now returns with an error.
FailsAtIndex ==
  \E d \in Dialers :
    /\ dial.pc[d] = "dialing" /\ dial'.pc[d] = "idle"
    /\ dial.s[d] = dial.index
    /\ dial'.log = Append(dial.log, [s |-> dial.index, ok |-> FALSE])

\* C29: the index changes only in the step in which a dial to the endpoint
\* it designates returns with an error: not when a dial returns a
\* connection, not when a connection fails in its handshake or in a read or
\* write; so while it designates an endpoint that accepts every dial it
\* does not change.
C29_OnlyFailedDialMoves ==
  /\ [][dial'.index # dial.index => FailsAtIndex]_vars
  /\ [][dial.ep[dial.index + 1] = "accepting" => dial'.index = dial.index]_vars

\* C29 witness: the index has moved to an endpoint that accepts, a dial to
\* it has returned a connection, a connection has failed after that, and
\* the index is where it was.
C29_Witness ==
  /\ dial.index = 1 /\ dial.ep[2] = "accepting"
  /\ dial.broken
  /\ \E k \in 1..Len(dial.log) : dial.log[k] = [s |-> 1, ok |-> TRUE]

\* The index designates an endpoint that accepts.
AtAccepting == dial.ep[dial.index + 1] = "accepting"

\* C30: with at least one endpoint that always accepts and the others
\* always refusing, dials being issued for ever and each returning, the
\* index comes to designate an accepting endpoint after len - 1 moves at
\* most and then stays there, and from then on every dial that begins
\* (it loads that index) returns a connection.
C30_FailoverLive ==
  /\ <>[]AtAccepting
  /\ [](dial.moved <= nAddrs - 1)
  /\ [][AtAccepting => dial'.index = dial.index]_vars
  /\ [][\A d \in Dialers :
          (AtAccepting /\ dial.pc[d] = "dialing" /\ dial.s[d] = dial.index
             /\ dial'.pc[d] = "idle")
            => dial'.log = <<[s |-> dial.index, ok |-> TRUE]>>]_vars

\* C30 witness: on a list of two refusing endpoints and an accepting one the
\* index has moved twice, and a dial to the accepting one has returned a
\* connection.
C30_Witness ==
  /\ dial.ep = <<"refusing", "refusing", "accepting">>
  /\ dial.index = 2 /\ dial.moved = 2
  /\ dial.log = <<[s |-> 2, ok |-> TRUE]>>

\* The query m is not among the queries the connection holds unread.
NotQueued(c, m) ==
  /\ \A i \in 1..Len(c.queue) : c.queue[i] # m
  /\ \A i \in 1..Len(c.ibuf) :
       i + Len(m) + 1 <= Len(c.ibuf) => SubSeq(c.ibuf, i, i + Len(m) + 1) # Frame(m)

C33_CacheWrittenOnSuccess ==
  /\ [][entries' # entries => ret'.err = "nil" /\ ret'.dialed]_vars
  /\ [][ret'.err \in {"dial", "io", "ErrShortBuffer", "EOF"} => entries' = entries]_vars
  /\ [][(\E c \in CConns : (cc[c].cancel \/ cc[c].closer)
                             /\ ~cc'[c].cancel /\ ~cc'[c].closer /\ cc'[c].pc = cc[c].pc)
          => entries' = entries]_vars

\* C33 witness: a Read that has dialed has failed while the cache holds an
\* entry.
C33_Witness ==
  /\ ret.err \in {"dial", "io", "ErrShortBuffer"} /\ ret.dialed
  /\ DOMAIN entries # {}

\* C34: when Close is called on a dohConn while the round-trips of several
\* Reads are in flight, the context of each of them is cancelled, not only
\* that of the Read that started last.
C34_CloseCancelsAll ==
  \A r \in Readers :
    conn.kind = "doh" /\ rd[r].pc = "trip" /\ rd[r].closedDuring
      => rd[r].ctx # "live"

\* C39: the context a Read hands to its round-trip has no deadline and is
\* not expired when the stored deadline is the zero time as the Read starts;
\* it has a deadline only when one is stored at that moment, and a deadline
\* set later does not change it.
C39_NoDeadlineNoExpiry ==
  /\ [][\A r \in Readers :
          (rd[r].pc = "idle" /\ rd'[r].pc = "trip")
            => rd'[r].ctx = IF conn.deadline = 0 THEN "background" ELSE "live"]_vars
  /\ [][\A r \in Readers :
          (rd[r].pc = "trip" /\ rd'[r].pc = "trip" /\ conn'.deadline # conn.deadline)
            => rd'[r].ctx = rd[r].ctx]_vars

\* C35: a call for port 53 or "domain" whose address is not in badServers
\* goes without the dial to port 853 only when its deadline is less than two
\* seconds away; a call whose context has no deadline dials port 853.
C35_SkipOnlyOnShortDeadline ==
  \A c \in OppCallers :
    (/\ opp.g[c].pc # "idle"
     /\ opp.g[c].address.port \in {"53", "domain"}
     /\ ~opp.g[c].bad
     /\ opp.g[c].dials[1] = Asked(opp.g[c]))
      => Short(opp.g[c])

\* The addresses in the slots of badServers.list.
InRing(list) == {list[i] : i \in DOMAIN list} \ {NoAddr}

\* The addresses other than adds[k] that were added after it.
AddedAfter(adds, k) == {adds[j] : j \in (k + 1)..Len(adds)} \ {adds[k]}

\* adds[k] is the last addition of its address.
LastAdd(adds, k) == \A j \in (k + 1)..Len(adds) : adds[j] # adds[k]

\* C36: badServers.list has four slots and next is one of them; no address
\* is in two slots; an address that was added is in the list as long as
\* fewer than four other addresses have been added after it and is not in
\* it once four have been; and the list changes only by the write of an
\* address that is not in it to the slot at next, which moves next on by one.
C36_RingInvariants ==
  /\ [](/\ DOMAIN opp.list = 0..3 /\ opp.next \in 0..3
        /\ \A i, j \in DOMAIN opp.list :
             (i # j /\ opp.list[i] # NoAddr) => opp.list[i] # opp.list[j]
        /\ \A k \in 1..Len(opp.adds) :
             LastAdd(opp.adds, k) =>
               (opp.adds[k] \in InRing(opp.list)
                  <=> Cardinality(AddedAfter(opp.adds, k)) < 4)
        /\ \A a \in InRing(opp.list) : \E k \in 1..Len(opp.adds) : opp.adds[k] = a)
  /\ [][opp'.list # opp.list =>
          /\ opp'.next = (opp.next + 1) % 4
          /\ opp'.list[opp.next] \notin InRing(opp.list) \cup {NoAddr}
          /\ \A i \in DOMAIN opp.list : i # opp.next => opp'.list[i] = opp.list[i]]_vars

\* C36 witness: five addresses have been added, the first of them has been
\* overwritten by the fifth and the other four are in the list.
C36_Witness ==
  /\ Len(opp.adds) = 5
  /\ opp.adds[1] \notin InRing(opp.list)
  /\ opp.list[0] = opp.adds[5] /\ opp.next = 1
  /\ \A k \in 2..5 : opp.adds[k] \in InRing(opp.list)

\* The input buffer holds less than one framed message: fewer than two bytes
\* of length, or fewer bytes after them than they count.
Incomplete(ibuf) ==
  \/ Len(ibuf) < 2
  \/ Len(ibuf) - 2 < ibuf[1] * 256 + ibuf[2]

\* C37: a Read of a dnsConn whose output buffer is empty and whose input
\* buffer holds less than one framed message returns an error, makes no
\* round-trip and leaves the input buffer as it is; every round-trip is
\* therefore made for a query as it was written, whatever the pieces it
\* was written in.
C37_IncompleteInputKept ==
  /\ [][(rd[1].pc = "idle" /\ conn.obuf = <<>> /\ Incomplete(conn.ibuf)
          /\ (out'.r = 1 \/ rd'[1].pc = "trip"))
         => /\ out'.err \notin {"none", "nil"}
            /\ rd'[1].pc = "idle"
            /\ conn'.ibuf = conn.ibuf]_vars
  /\ [](rd[1].pc = "trip" => \E k \in 1..MaxWrites : rd[1].imsg = ConnQuery(k))
  /\ [](\A i \in 1..Len(hist.trips) :
          \E k \in 1..MaxWrites : hist.trips[i][1] = ConnQuery(k))

\* The responses of the round-trips given, each after the two bytes of its
\* length, the high byte first.
RECURSIVE Framed(_)
Framed(trips) ==
  IF trips = <<>> THEN <<>>
  ELSE LET res == Head(trips)[2]
       IN <<Len(res) \div 256, Len(res) % 256>> \o res \o Framed(Tail(trips))

\* C38: with one goroutine reading a dnsConn, with buffers of any length
\* from one byte on, the bytes the Reads have delivered and the bytes still
\* in the output buffer are together the responses of the round-trips in
\* their order, each after its length in two bytes; every response is the
\* one to the message of its round-trip; a Read without error delivers
\* no more than its buffer holds; and a round-trip begins only when the
\* output buffer is empty.
C38_StreamExact ==
  /\ [](Flat(hist.delivered) \o conn.obuf = Framed(hist.trips))
  /\ [](\A i \in 1..Len(hist.trips) : hist.trips[i][2] = Respond(hist.trips[i][1]))
  /\ [](out.err = "nil" => out.n = Len(out.data) /\ out.n \in 1..out.blen)
  /\ [](rd[1].pc = "trip" => conn.obuf = <<>>)
  /\ [][rd'[1].pc = "trip" => conn'.obuf = <<>> /\ conn.obuf = <<>>]_vars

\* C38 witness: the responses to both queries have been delivered whole,
\* the first in Reads with a buffer of one byte, the second from a Read
\* with a buffer shorter than the response on.
C38_Witness ==
  /\ Len(hist.trips) = 2 /\ hist.done = {1, 2} /\ conn.obuf = <<>>
  /\ Len(hist.delivered) = ShortLen + 3 + 2
  /\ \A i \in 1..(ShortLen + 3) : Len(hist.delivered[i]) = 1
  /\ Len(hist.delivered[ShortLen + 4]) = ShortLen
  /\ out.err = "nil" /\ out.blen = LongLen /\ out.n = 3

\* The goroutines in roundTrip.
InTrip == {p \in LockProcs : lk.g[p].pc = "trip"}

\* C31: no goroutine holds the mutex of a dnsConn while it is in roundTrip,
\* and the mutex is held only by a goroutine that is about to unlock it;
\* so whichever goroutines are in roundTrip, and whether or not the
\* back-end ever answers them, every Write, SetReadDeadline and Close
\* returns, every c.Lock() returns and every holder unlocks.
C31_LockFree ==
  /\ [](\A p \in InTrip : lk.holder # p)
  /\ [](lk.holder # 0 => lk.g[lk.holder].pc = "in")
  /\ (lk.g[3].pc # "idle") ~> (lk.g[3].pc = "idle")
  /\ \A p \in LockProcs :
       /\ (lk.g[p].pc = "lock") ~> (lk.g[p].pc = "in")
       /\ (lk.g[p].pc = "in") ~> (lk.g[p].pc \in {"idle", "trip", "lock"})

\* C31 witness: while goroutine 1 is in roundTrip for the first query, with
\* a context made when no deadline was stored, a SetReadDeadline has
\* stored one and returned, goroutine 3 has then locked the mutex in the
\* Write of the second query, and a Read of goroutine 2 waits for the mutex.
C31_Witness ==
  /\ lk.g[1].pc = "trip" /\ lk.g[1].ctx = "background"
  /\ lk.g[1].imsg = ConnQuery(1)
  /\ conn.deadline = 1
  /\ lk.writes = 1 /\ conn.ibuf = <<>>
  /\ lk.g[2].pc = "lock" /\ lk.g[2].fn = "drainBuffers"
  /\ lk.holder = 3 /\ lk.g[3].fn = "Write"

====
